---- MODULE Spec2Model ----
(***************************************************************************)
(* Model of the asynchronous check-orchestration pipeline of bitpanda-aml: *)
(* intake (CheckAddressUseCase), the RabbitMQ bus with its retry and       *)
(* dead-letter protocol, the AML worker, the report worker, the in-memory  *)
(* check repository with TTL sweep, the report storage, and the bounded    *)
(* wait of the HTTP handler.                                               *)
(*                                                                         *)
(* Time is a discrete clock `now`.  The waits and lifetimes that main      *)
(* reads from the environment (CHECK_WAIT_SECONDS, CHECK_TTL_HOURS,        *)
(* REPORT_TTL_HOURS) are configured to one unit of it, and a calendar day  *)
(* of the MinIO object keys lasts DayLen units.  Strings that the code     *)
(* inspects character by character (addresses, report keys, tokens) are    *)
(* sequences of one-character strings.                                     *)
(*                                                                         *)
(* Besides the pipeline (Spec, ReplaySpec, FairSpec), the repository is    *)
(* run with its operations called directly (RegistrySpec), the report      *)
(* token with Sign and Verify called directly (TokenSpec), and the         *)
(* pipeline with the status and report queries of a client (QuerySpec).    *)
(* The variable ret holds what the last direct call or query returned.     *)
(***************************************************************************)
EXTENDS Integers, Sequences, FiniteSets, TLC

\* ------------------------------------------------------------------ bounds
MaxRequests == 1
MaxFaults == 2
MaxTime == 2
MaxReplays == 1
MaxIds == 2
MaxObjects == 3

\* ------------------------------------------------------- program constants
MaxRetries == 3
\* configuration, in clock units
CheckTTL == 1
ReportTTL == 1
CheckWait == 1
\* clock units per calendar day
DayLen == 2
\* lifetime of the report token respondCheckResult signs
TokenLifetime == 1
\* days MinIOStorage.Get and PresignGet look back for an object
LookbackDays == 7

EventAMLCheckRequested == "aml.check.requested"
EventAMLCheckCompleted == "aml.check.completed"
EventAMLReportReady == "aml.report.ready"
EventAMLCheckFailed == "aml.check.failed"

StatusProcessing == "processing"
StatusCompleted == "completed"
StatusFailed == "failed"

QueueAMLRequests == "q_aml_requests"
QueueReportJobs == "q_report_jobs"
Queues == {QueueAMLRequests, QueueReportJobs}

\* routing keys each worker binds its queue to (AMLWorker.Start, ReportWorker.Start)
RoutingKeys(q) ==
  IF q = QueueAMLRequests THEN {EventAMLCheckRequested}
  ELSE {EventAMLCheckCompleted, EventAMLCheckFailed}

DlqName(q) == IF q = QueueAMLRequests THEN "q_aml_requests.dlq" ELSE "q_report_jobs.dlq"

Ids == 1..MaxRequests

\* ------------------------------------------------------------ characters
Range(s) == {s[i] : i \in DOMAIN s}

UpperSeq == <<"A","B","C","D","E","F","G","H","I","J","K","L","M",
              "N","O","P","Q","R","S","T","U","V","W","X","Y","Z">>
LowerSeq == <<"a","b","c","d","e","f","g","h","i","j","k","l","m",
              "n","o","p","q","r","s","t","u","v","w","x","y","z">>
DigitChars == {"0","1","2","3","4","5","6","7","8","9"}
DigitSeq == <<"0","1","2","3","4","5","6","7","8","9">>

\* the decimal text of an integer, as fmt's %d and %s of a numeric id write it
RECURSIVE Itoa(_)
Itoa(n) ==
  IF n < 0 THEN <<"-">> \o Itoa(-n)
  ELSE IF n < 10 THEN <<DigitSeq[n + 1]>>
  ELSE Itoa(n \div 10) \o <<DigitSeq[(n % 10) + 1]>>

SpaceChars == {" ", "\t", "\n"}

ToLowerChar(c) ==
  IF \E i \in DOMAIN UpperSeq : UpperSeq[i] = c
  THEN LowerSeq[CHOOSE i \in DOMAIN UpperSeq : UpperSeq[i] = c]
  ELSE c

ToUpperChar(c) ==
  IF \E i \in DOMAIN LowerSeq : LowerSeq[i] = c
  THEN UpperSeq[CHOOSE i \in DOMAIN LowerSeq : LowerSeq[i] = c]
  ELSE c

ToLower(s) == [i \in DOMAIN s |-> ToLowerChar(s[i])]
ToUpper(s) == [i \in DOMAIN s |-> ToUpperChar(s[i])]

RECURSIVE TrimLeft(_)
TrimLeft(s) ==
  IF s # <<>> /\ Head(s) \in SpaceChars THEN TrimLeft(Tail(s)) ELSE s

RECURSIVE TrimRight(_)
TrimRight(s) ==
  IF s # <<>> /\ s[Len(s)] \in SpaceChars
  THEN TrimRight(SubSeq(s, 1, Len(s) - 1)) ELSE s

TrimSpace(s) == TrimRight(TrimLeft(s))

HasPrefix(s, p) == Len(s) >= Len(p) /\ SubSeq(s, 1, Len(p)) = p

\* ---------------------------------------------------------------- assets
HexChars == DigitChars \cup {"a","b","c","d","e","f","A","B","C","D","E","F"}
\* [a-km-zA-HJ-NP-Z1-9]
Base58Chars ==
  ((Range(LowerSeq) \ {"l"}) \cup (Range(UpperSeq) \ {"I", "O"}) \cup DigitChars) \ {"0"}
\* [a-z0-9]
Bech32Chars == Range(LowerSeq) \cup DigitChars

\* Bitcoin.ValidateAddress: TRUE iff the address is accepted
BitcoinValidateAddress(a) ==
  /\ a # <<>>
  /\ \/ /\ HasPrefix(a, <<"1">>) \/ HasPrefix(a, <<"3">>)
        /\ Len(a) >= 26 /\ Len(a) <= 35
        /\ a[1] \in {"1", "3"}
        /\ Len(a) - 1 >= 25 /\ Len(a) - 1 <= 34
        /\ \A i \in 2..Len(a) : a[i] \in Base58Chars
     \/ /\ HasPrefix(a, <<"b","c","1">>)
        /\ Len(a) >= 42 /\ Len(a) <= 62
        /\ Len(a) - 3 >= 39 /\ Len(a) - 3 <= 59
        /\ \A i \in 4..Len(a) : a[i] \in Bech32Chars

BitcoinNormalizeAddress(a) == TrimSpace(a)

\* Ethereum.ValidateAddress: ^0x[a-fA-F0-9]{40}$
EthereumValidateAddress(a) ==
  /\ a # <<>>
  /\ Len(a) = 42
  /\ a[1] = "0" /\ a[2] = "x"
  /\ \A i \in 3..42 : a[i] \in HexChars

EthereumNormalizeAddress(a) == ToLower(TrimSpace(a))

\* symbols registered by NewDefaultAssetRegistry
AssetSymbols == {<<"B","T","C">>, <<"E","T","H">>, <<"U","S","D","T">>}

\* DefaultAssetRegistry.Get: the registered symbol, or <<>> for ErrUnsupportedCurrency
AssetRegistryGet(symbol) ==
  IF ToUpper(symbol) \in AssetSymbols THEN ToUpper(symbol) ELSE <<>>

ValidateAddress(asset, a) ==
  IF asset = <<"B","T","C">> THEN BitcoinValidateAddress(a) ELSE EthereumValidateAddress(a)

NormalizeAddress(asset, a) ==
  IF asset = <<"B","T","C">> THEN BitcoinNormalizeAddress(a) ELSE EthereumNormalizeAddress(a)

\* ---------------------------------------------------------------- inputs
Rep(n, c) == [i \in 1..n |-> c]

\* 0x742d35cc... in mixed case with surrounding blanks, 42 characters once trimmed
EthAddrPadded == <<" ", "0", "x">> \o Rep(20, "A") \o Rep(20, "9") \o <<" ">>
EthAddrShort == <<"0", "x">> \o Rep(10, "a")
BtcAddr == <<"1">> \o Rep(25, "b")
BtcAddrBadChar == <<"1">> \o Rep(24, "b") \o <<"0">>

\* the (address, currency) pairs callers submit
Requests ==
  { <<EthAddrPadded, <<"e","t","h">> >>,
    <<BtcAddr, <<"U","S","D","T">> >>,
    <<EthAddrShort, <<"U","S","D","T">> >>,
    <<BtcAddrBadChar, <<"B","T","C">> >>,
    <<BtcAddr, <<"X","R","P">> >>,
    << <<>>, <<"E","T","H">> >> }

\* ----------------------------------------------------------------- state
VARIABLES
  now,          \* the clock (time.Now), in poll ticks
  requests,     \* number of CheckAddress calls so far; call n allocates check id n
  heap,         \* the AMLCheck objects, by reference: what *domain.AMLCheck points to
  checks,       \* MemoryCheckRepository.checks: check id -> reference
  queue,        \* the durable queues of the main exchange, queue name -> messages
  hs,           \* per queue, the handler invocations in flight (delivered, not settled)
  dlq,          \* per queue, the content of its dead-letter queue <queue>.dlq
  dlx,          \* the publishes the dead-letter exchange accepted, in order
  settled,      \* the acknowledgements the consumers sent: ack / nack per delivery
  published,    \* the event bodies the main exchange accepted from Publish
  objects,      \* the report storage: stored objects with their expiry
  config,       \* what main wired: the report storage, the AML provider, the API key
  down,         \* the external collaborators that currently fail when called
  faults,       \* changes of collaborator health so far
  replays,      \* redeliveries of already acknowledged messages injected so far
  waiter,       \* per check id, the CheckAddress request waiting for it: its position,
                \* its deadline, its response, and whether the check was terminal
                \* when the wait elapsed (history)
  lastIntake,   \* outcome of the most recent CheckAddress call before its wait
  ret,          \* what the most recent direct call of a component returned
  consumer      \* per queue, the consumption loop of its subscription: running,
                \* cancelled (ctx.Done() is closed) or stopped (the goroutine returned)

vars == <<now, requests, heap, checks, queue, hs, dlq, dlx, settled, published,
          objects, config, down, faults, replays, waiter, lastIntake, ret, consumer>>

\* the collaborators whose calls fail for a while: the AML provider, the AMQP
\* channel (every publish) and the report storage
Collaborators == {"aml", "bus", "storage"}
Up(k) == k \notin down

\* the two wirings of main: without credentials (local files, mock AML provider,
\* sanctions provider without API key) and with them (MinIO, AMLBot, Chainalysis)
Configs ==
  {[storage |-> "local", amlProvider |-> "mock", chainalysisKey |-> FALSE],
   [storage |-> "minio", amlProvider |-> "amlbot", chainalysisKey |-> TRUE]}

NilRef == 0

\* no direct call has been made yet
NoCall == [op |-> "none"]

NoHit == [Hit |-> FALSE, Identifications |-> <<>>]

\* the report key of GenerateReportUseCase.Execute: fmt.Sprintf("%s.pdf", checkID)
ReportKeyOf(checkID) == Itoa(checkID) \o <<".", "p", "d", "f">>
NoKey == <<>>

\* variant: the constructor leaves Status at its zero value
NewAMLCheckNoStatus(id, address, currency, t) ==
  [ID |-> id, Address |-> address, Currency |-> currency,
   Status |-> "", RiskScore |-> 0, RiskLevel |-> "",
   Categories |-> <<>>, Sanctions |-> NoHit, ReportKey |-> NoKey,
   ErrorMessage |-> "", CreatedAt |-> t, UpdatedAt |-> t, ExpiresAt |-> t + CheckTTL]

\* variant: a check that is created Failed
NewAMLCheckFailed(id, address, currency, t) ==
  [ID |-> id, Address |-> address, Currency |-> currency,
   Status |-> StatusFailed, RiskScore |-> 0, RiskLevel |-> "",
   Categories |-> <<>>, Sanctions |-> NoHit, ReportKey |-> NoKey,
   ErrorMessage |-> "", CreatedAt |-> t, UpdatedAt |-> t, ExpiresAt |-> t + CheckTTL]

NewAMLCheck(id, address, currency, t) ==
  [ID |-> id, Address |-> address, Currency |-> currency,
   Status |-> StatusProcessing, RiskScore |-> 0, RiskLevel |-> "",
   Categories |-> <<>>, Sanctions |-> NoHit, ReportKey |-> NoKey,
   ErrorMessage |-> "", CreatedAt |-> t, UpdatedAt |-> t, ExpiresAt |-> t + CheckTTL]

\* variant: a time counts as after itself
NotBefore(t, u) == t >= u

\* AMLCheck.IsExpired / time.After: strictly later
After(t, u) == t > u
IsExpired(c) == After(now, c.ExpiresAt)

\* variant: a Get that hides a record past its ExpiresAt
RepositoryGetUnexpired(checkID) ==
  IF checkID \in DOMAIN checks /\ ~After(now, heap[checks[checkID]].ExpiresAt)
  THEN checks[checkID] ELSE NilRef

\* MemoryCheckRepository.Get: the stored reference, or nil
RepositoryGet(checkID) == IF checkID \in DOMAIN checks THEN checks[checkID] ELSE NilRef

\* the record a reader of the repository sees for an id
Visible(checkID) == heap[checks[checkID]]

\* variant: a Create that reports the duplicate and stores the record all the same
RepositoryCreateOverwriting(ref) ==
  IF heap[ref].ID \in DOMAIN checks
  THEN [checks |-> [checks EXCEPT ![heap[ref].ID] = ref], err |-> "check already exists"]
  ELSE [checks |-> checks @@ (heap[ref].ID :> ref), err |-> ""]

\* variant: an Update that reports the missing id and stores the record all the same
RepositoryUpdateInserting(ref) ==
  IF heap[ref].ID \notin DOMAIN checks
  THEN [checks |-> checks @@ (heap[ref].ID :> ref), err |-> "check not found"]
  ELSE [checks |-> [checks EXCEPT ![heap[ref].ID] = ref], err |-> ""]

\* MemoryCheckRepository.Create of the object at ref: the map afterwards and the error
RepositoryCreate(ref) ==
  IF heap[ref].ID \in DOMAIN checks
  THEN [checks |-> checks, err |-> "check already exists"]
  ELSE [checks |-> checks @@ (heap[ref].ID :> ref), err |-> ""]

\* MemoryCheckRepository.Update of the object at ref: the map afterwards and the error
RepositoryUpdate(ref) ==
  IF heap[ref].ID \notin DOMAIN checks
  THEN [checks |-> checks, err |-> "check not found"]
  ELSE [checks |-> [checks EXCEPT ![heap[ref].ID] = ref], err |-> ""]

\* MemoryCheckRepository.CleanupExpired(t): the map afterwards and the count
RepositoryCleanupExpired(t) ==
  LET gone == {i \in DOMAIN checks : After(t, heap[checks[i]].ExpiresAt)} IN
  [checks |-> [id \in DOMAIN checks \ gone |-> checks[id]], count |-> Cardinality(gone)]

\* ------------------------------------------------------------------- bus
NewEventID == Cardinality(published) + 1

\* variant: the event names another check than the one it is about
NewEventOtherCheck(type, checkID, payload) ==
  [id |-> NewEventID, type |-> type, check |-> checkID + 1, payload |-> payload]

NewEvent(type, checkID, payload) ==
  [id |-> NewEventID, type |-> type, check |-> checkID, payload |-> payload]

NoHeaders == {}
\* variant: the republished copy carries no retry counter
RetryHeaderLost(n) == {}

RetryHeader(n) == {<<"x-retry-count", n>>}

\* the consumer's reading of x-retry-count: 0 when the header is absent
RetryCountOf(msg) ==
  IF \E h \in msg.headers : h[1] = "x-retry-count"
  THEN (CHOOSE h \in msg.headers : h[1] = "x-retry-count")[2]
  ELSE 0

Message(body, routingKey, headers, replay) ==
  [body |-> body, routing |-> routingKey, headers |-> headers, replay |-> replay]

\* the topic exchange: a message goes to every queue bound to its routing key
Route(qs, routingKey, msg) ==
  [q \in Queues |-> IF routingKey \in RoutingKeys(q) THEN Append(qs[q], msg) ELSE qs[q]]

\* RabbitMQBus.Publish, accepted by the broker
Publish(qs, routingKey, event) == Route(qs, routingKey, Message(event, routingKey, NoHeaders, 0))

RequestedPayload(address, currency) == [Address |-> address, Currency |-> currency]

Init ==
  /\ now = 0
  /\ requests = 0
  /\ heap = <<>>
  /\ checks = <<>>
  /\ queue = [q \in Queues |-> <<>>]
  /\ hs = [q \in Queues |-> {}]
  /\ dlq = [q \in Queues |-> <<>>]
  /\ dlx = <<>>
  /\ settled = {}
  /\ published = {}
  /\ objects = {}
  /\ config \in Configs
  /\ down = {}
  /\ faults = 0
  /\ replays = 0
  /\ waiter = [id \in Ids |-> [pc |-> "none", deadline |-> 0, inTime |-> FALSE,
                               code |-> 0, handle |-> 0]]
  /\ lastIntake = [result |-> "none", id |-> 0]
  /\ ret = NoCall
  /\ consumer = [q \in Queues |-> "running"]

\* ---------------------------------------------------------------- intake
\* variant: the address is not validated
IntakeVerdictUnvalidated(address, currency) ==
  IF AssetRegistryGet(currency) = <<>> THEN "unsupported currency" ELSE "ok"

\* CheckAddressUseCase.Execute up to the creation of the check: what it decides
\* from its input alone
IntakeVerdict(address, currency) ==
  LET asset == AssetRegistryGet(currency) IN
  IF asset = <<>> THEN "unsupported currency"
  ELSE IF ~ValidateAddress(asset, NormalizeAddress(asset, address)) THEN "invalid address"
  ELSE "ok"

IntakeTable ==
  [r \in Requests |->
     [verdict |-> IntakeVerdict(r[1], r[2]),
      asset |-> AssetRegistryGet(r[2]),
      normalized |-> NormalizeAddress(AssetRegistryGet(r[2]), r[1])]]

\* CheckAddressUseCase.Execute called by Handlers.CheckAddress, up to the start of
\* the bounded wait (request decoding and the DTO's validate tags are not modelled)
CheckAddress(r) ==
  LET in == IntakeTable[r]
      id == requests + 1
      event == NewEvent(EventAMLCheckRequested, id, RequestedPayload(in.normalized, in.asset))
  IN
  /\ UNCHANGED <<now, hs, dlq, dlx, settled, objects, config, consumer, down, faults, replays, ret>>
  /\ requests < MaxRequests
  /\ requests' = id
  /\ IF in.verdict # "ok"
     THEN /\ lastIntake' = [result |-> in.verdict, id |-> 0]
          /\ UNCHANGED <<heap, checks, queue, published, waiter>>
     ELSE /\ heap' = heap @@ (id :> NewAMLCheck(id, in.normalized, in.asset, now))
          /\ checks' = checks @@ (id :> id)
          /\ IF Up("bus")
             THEN /\ queue' = Publish(queue, EventAMLCheckRequested, event)
                  /\ published' = published \cup {event}
                  /\ waiter' = [waiter EXCEPT ![id] =
                                  [pc |-> "waiting", deadline |-> now + CheckWait,
                                   inTime |-> FALSE, code |-> 0, handle |-> 0]]
                  /\ lastIntake' = [result |-> "accepted", id |-> id]
             ELSE /\ lastIntake' = [result |-> "failed to publish event", id |-> 0]
                  /\ UNCHANGED <<queue, published, waiter>>

\* -------------------------------------------------------------- environment
\* a collaborator starts or stops failing
Toggle(k) ==
  /\ faults < MaxFaults
  /\ k = "aml" => config.amlProvider = "amlbot"
  /\ faults' = faults + 1
  /\ down' = IF k \in down THEN down \ {k} ELSE down \cup {k}
  /\ UNCHANGED <<now, requests, heap, checks, queue, hs, dlq, dlx, settled, published,
                 objects, config, consumer, replays, waiter, lastIntake, ret>>

\* ----------------------------------------------------------------- clock
\* the registry holds the check with a terminal status
TerminalInRegistry(id) ==
  /\ id \in DOMAIN checks
  /\ heap[checks[id]].Status \in {StatusCompleted, StatusFailed}

\* time passes; when the wait of a request elapses, its history field inTime
\* records whether its check was terminal in the registry by then
Tick ==
  /\ now < MaxTime
  /\ now' = now + 1
  /\ waiter' = [id \in Ids |->
       IF waiter[id].pc = "waiting" /\ now < waiter[id].deadline
                                   /\ now + 1 >= waiter[id].deadline
       THEN [waiter[id] EXCEPT !.inTime = TerminalInRegistry(id)]
       ELSE waiter[id]]
  /\ UNCHANGED <<requests, heap, checks, queue, hs, dlq, dlx, settled, published,
                 objects, config, consumer, down, faults, replays, lastIntake, ret>>

\* the tick of StartCleanupLoop: CleanupExpired(time.Now()), the count discarded
CleanupExpired ==
  /\ checks' = RepositoryCleanupExpired(now).checks
  /\ UNCHANGED <<now, requests, heap, queue, hs, dlq, dlx, settled, published,
                 objects, config, consumer, down, faults, replays, waiter, lastIntake, ret>>

\* ------------------------------------------------------- consumption loop
\* a delivery in the hands of its handler; calls records the providers the
\* handler has called
Ctx(msg) ==
  [msg |-> msg, pc |-> "run", err |-> "", ref |-> NilRef, pending |-> {}, calls |-> {}]

Called(c, providers) == [c EXCEPT !.calls = providers]

Replace(q, c, d) == [hs EXCEPT ![q] = (@ \ {c}) \cup {d}]

\* variant: the worker logs the error of its use case and returns nil
ReturnedNil(c, err) == [c EXCEPT !.pc = "settle", !.err = "", !.pending = {}]

\* err := handler(ctx, message): the handler has returned err ("" for nil)
Returned(c, err) == [c EXCEPT !.pc = "settle", !.err = err, !.pending = {}]

\* variant: a prefetch count of 2 with a handler goroutine per delivery
ConsumerReadyPrefetch2(q) == Cardinality(hs[q]) < 2 /\ consumer[q] # "stopped"

\* Qos(1) and the sequential for/select loop of Subscribe: the consumer takes the
\* next delivery only when no delivery of its queue is unsettled and its
\* goroutine has not returned
ConsumerReady(q) == hs[q] = {} /\ consumer[q] # "stopped"

Dequeued(q) == [queue EXCEPT ![q] = Tail(@)]

\* variant: a type tag the worker does not handle is an error of the handler
UnknownEventTypeRejected == "unknown event type"

\* handleMessage, default branch of the switch on event.Type: a warning is
\* logged, "return nil"
UnknownEventType == ""

\* variant: the retry ceiling compared with > instead of >=
ShouldDeadLetterLate(retryCount) == retryCount > MaxRetries

\* variant: the ceiling reached one retry early
ShouldDeadLetterEarly(retryCount) == retryCount + 1 >= MaxRetries

\* if retryCount >= MaxRetries
ShouldDeadLetter(retryCount) == retryCount >= MaxRetries

DeadLetter(q, msg, retryCount, err) ==
  [body |-> msg.body, originalQueue |-> q, originalRouting |-> msg.routing,
   retryCount |-> retryCount, lastError |-> err]

\* the dead-letter exchange is a fanout: every queue bound to it gets a copy, and
\* Subscribe binds <queue>.dlq of every subscription to it
DlqFanout(dq, entry) == [q \in Queues |-> Append(dq[q], entry)]

\* variant: the delivery rejected for a retry is discarded
NackRequeueDiscarding(q, msg) == queue

\* msg.Nack(false, true): the broker puts the delivery back at the head of q
NackRequeue(q, msg) == [queue EXCEPT ![q] = <<msg>> \o @]

\* variant: the rejected delivery is put back at the head of q
NackDiscardRequeuing(q, msg) == [queue EXCEPT ![q] = <<msg>> \o @]

\* msg.Nack(false, false): the broker discards the delivery (the queues are
\* declared without dead-letter arguments)
NackDiscard(q, msg) == queue

Settlement(q, c, outcome) ==
  [queue |-> q, event |-> c.msg.body.id, type |-> c.msg.body.type,
   check |-> c.msg.body.check, retry |-> RetryCountOf(c.msg),
   replay |-> c.msg.replay, err |-> c.err, outcome |-> outcome]

\* Subscribe, from the handler's return to the acknowledgement
Settle(q) ==
  \E c \in hs[q] :
    LET retryCount == RetryCountOf(c.msg) IN
    /\ c.pc = "settle"
    /\ hs' = [hs EXCEPT ![q] = @ \ {c}]
    /\ UNCHANGED <<now, requests, heap, checks, published, objects, config, consumer,
                   down, faults, replays, waiter, lastIntake, ret>>
    /\ IF c.err = ""
       THEN /\ settled' = settled \cup {Settlement(q, c, "ack")}
            /\ UNCHANGED <<queue, dlq, dlx>>
       ELSE IF ShouldDeadLetter(retryCount)
       THEN IF Up("bus")
            THEN /\ dlx' = Append(dlx, DeadLetter(q, c.msg, retryCount, c.err))
                 /\ dlq' = DlqFanout(dlq, DeadLetter(q, c.msg, retryCount, c.err))
                 /\ settled' = settled \cup {Settlement(q, c, "dead-lettered")}
                 /\ UNCHANGED queue
            ELSE /\ queue' = NackDiscard(q, c.msg)
                 /\ settled' = settled \cup {Settlement(q, c, "dropped")}
                 /\ UNCHANGED <<dlq, dlx>>
       ELSE IF Up("bus")
            THEN /\ queue' = Route(queue, c.msg.routing,
                                   Message(c.msg.body, c.msg.routing,
                                           RetryHeader(retryCount + 1), c.msg.replay))
                 /\ settled' = settled \cup {Settlement(q, c, "republished")}
                 /\ UNCHANGED <<dlq, dlx>>
            ELSE /\ queue' = NackRequeue(q, c.msg)
                 /\ settled' = settled \cup {Settlement(q, c, "requeued")}
                 /\ UNCHANGED <<dlq, dlx>>

\* ------------------------------------------------------------ AML worker
DeriveRiskLevel(score) ==
  IF score >= 80 THEN "Critical"
  ELSE IF score >= 60 THEN "High"
  ELSE IF score >= 30 THEN "Medium"
  ELSE "Low"

\* MockAMLProvider.CheckAddress
MockAMLResult(address) ==
  LET score == 10 + (Len(address) % 80) IN
  [RiskScore |-> score, RiskLevel |-> DeriveRiskLevel(score),
   Categories |-> IF score >= 80 THEN <<"High Risk Exchange", "Darknet", "Mixer">>
                  ELSE IF score >= 60 THEN <<"High Risk Exchange">> ELSE <<>>]

\* bodies the AMLBot service may answer with: risk_level is optional
AMLBotResponses ==
  {[risk_score |-> 85, risk_level |-> "", categories |-> <<"Darknet">>],
   [risk_score |-> 85, risk_level |-> "Low", categories |-> <<"Darknet">>]}

\* AMLBotProvider.CheckAddress on a decoded body: the level of the body, derived
\* from the score only when the body has none
AMLBotResult(resp) ==
  [RiskScore |-> resp.risk_score,
   RiskLevel |-> IF resp.risk_level = "" THEN DeriveRiskLevel(resp.risk_score)
                 ELSE resp.risk_level,
   Categories |-> resp.categories]

AMLBotResults == {AMLBotResult(resp) : resp \in AMLBotResponses}

\* what the configured AMLProvider may return for an address
ProviderResults(address) ==
  IF config.amlProvider = "mock" THEN {MockAMLResult(address)} ELSE AMLBotResults

\* MockAMLProvider.CheckAddress never returns an error; AMLBotProvider does while
\* the service is down
AMLProviderFails == config.amlProvider = "amlbot" /\ ~Up("aml")

\* outcomes of ChainalysisProvider.CheckAddress: without API key always an empty
\* result, with it a result or an error
SanctionsOutcomes ==
  IF config.chainalysisKey
  THEN {[err |-> FALSE, result |-> [Hit |-> TRUE, Identifications |-> <<"OFAC SDN">>]],
        [err |-> TRUE, result |-> NoHit]}
  ELSE {[err |-> FALSE, result |-> NoHit]}

\* variant: a sanctions failure reported as a hit without identifications
SanctionsOrHit(o) ==
  IF o.err THEN [Hit |-> TRUE, Identifications |-> <<>>] ELSE o.result

\* a sanctions failure is logged and replaced by an empty "no hit" result
SanctionsOrNoHit(o) == IF o.err THEN NoHit ELSE o.result

CompletedPayload(r, s) ==
  [RiskScore |-> r.RiskScore, RiskLevel |-> r.RiskLevel, Categories |-> r.Categories,
   Sanctions |-> s]

\* variant: check.failed without the error message
FailedPayloadBlank(errorMessage) == [ErrorMessage |-> ""]

FailedPayload(errorMessage) == [ErrorMessage |-> errorMessage]

\* ProcessAMLCheckUseCase.publishFailedEvent: the error it returns
\* variant: publishFailedEvent returns nil once the event is published
PublishFailedEventErrorNil(errorMessage) ==
  IF Up("bus") THEN "" ELSE "failed to publish failed event"

PublishFailedEventError(errorMessage) ==
  IF Up("bus") THEN errorMessage ELSE "failed to publish failed event"

\* the consumer of q_aml_requests takes the next delivery and runs
\* AMLWorker.handleMessage: ProcessAMLCheckUseCase.Execute and publishFailedEvent
ProcessAMLCheck ==
  LET q == QueueAMLRequests
      c == Ctx(Head(queue[q]))
      body == c.msg.body
      failed == NewEvent(EventAMLCheckFailed, body.check, FailedPayload("AML check failed"))
  IN
  /\ ConsumerReady(q)
  /\ queue[q] # <<>>
  /\ UNCHANGED <<now, requests, heap, checks, dlq, dlx, settled, objects, config, consumer,
                 down, faults, replays, waiter, lastIntake, ret>>
  /\ IF body.type # EventAMLCheckRequested
     THEN /\ hs' = [hs EXCEPT ![q] = @ \cup {Returned(c, UnknownEventType)}]
          /\ queue' = Dequeued(q)
          /\ UNCHANGED published
     ELSE IF AMLProviderFails
     THEN /\ hs' = [hs EXCEPT ![q] =
                      @ \cup {Returned(Called(c, {"aml"}),
                                       PublishFailedEventError("AML check failed"))}]
          /\ IF Up("bus")
             THEN /\ queue' = Publish(Dequeued(q), EventAMLCheckFailed, failed)
                  /\ published' = published \cup {failed}
             ELSE /\ queue' = Dequeued(q)
                  /\ UNCHANGED published
     ELSE \E r \in ProviderResults(body.payload.Address) :
          \E o \in SanctionsOutcomes :
            LET completed == NewEvent(EventAMLCheckCompleted, body.check,
                                      CompletedPayload(r, SanctionsOrNoHit(o)))
            IN
            IF Up("bus")
            THEN /\ queue' = Publish(Dequeued(q), EventAMLCheckCompleted, completed)
                 /\ published' = published \cup {completed}
                 /\ hs' = [hs EXCEPT ![q] =
                             @ \cup {Returned(Called(c, {"aml", "sanctions"}), "")}]
            ELSE /\ queue' = Dequeued(q)
                 /\ hs' = [hs EXCEPT ![q] =
                             @ \cup {Returned(Called(c, {"aml", "sanctions"}),
                                              "failed to publish completed event")}]
                 /\ UNCHANGED published

\* --------------------------------------------------------- report storage
Day(t) == t \div DayLen

\* the object a Put of `key` at time t writes: LocalStorage keeps one file per key,
\* MinIOStorage prefixes the key with the date of the Put
ObjectKey(kind, key, t) ==
  IF kind = "minio" THEN <<"reports", Day(t), key>> ELSE <<key>>

\* LocalStorage.Put / MinIOStorage.Put: an object with the same object key is
\* overwritten
\* variant: a Put that reports success and stores nothing
StoragePutNothing(objs, kind, key, t) == objs

StoragePut(objs, kind, key, t) ==
  {o \in objs : o.ObjectKey # ObjectKey(kind, key, t)}
    \cup {[ObjectKey |-> ObjectKey(kind, key, t), Key |-> key, ExpiresAt |-> t + ReportTTL]}

\* LocalStorage.CleanupExpired / MinIOStorage.CleanupExpired, run by StartCleanupLoop
StorageCleanupExpired ==
  /\ objects' = {o \in objects : ~After(now, o.ExpiresAt)}
  /\ UNCHANGED <<now, requests, heap, checks, queue, hs, dlq, dlx, settled, published,
                 config, consumer, down, faults, replays, waiter, lastIntake, ret>>

\* the objects of `key` in the date-prefixed paths MinIOStorage searches at time
\* t, as the days back at which one exists
DaysBack(objs, key, t) ==
  {i \in 0..(LookbackDays - 1) :
     \E o \in objs : o.ObjectKey = ObjectKey("minio", key, t - i * DayLen)}

Min(S) == CHOOSE x \in S : \A y \in S : x <= y

\* the object a lookup of `key` at time t finds, as a set: LocalStorage reads
\* metadata[key], MinIOStorage takes the first day, from today back, at which an
\* object exists
Lookup(objs, kind, key, t) ==
  IF kind = "minio"
  THEN IF DaysBack(objs, key, t) = {} THEN {}
       ELSE {o \in objs :
               o.ObjectKey = ObjectKey("minio", key, t - Min(DaysBack(objs, key, t)) * DayLen)}
  ELSE {o \in objs : o.ObjectKey = ObjectKey("local", key, t)}

\* variant: a Get that serves an object whatever its expiry
StorageGetAnyAge(objs, kind, key, t) ==
  IF Lookup(objs, kind, key, t) = {}
  THEN [err |-> "report not found", data |-> {}]
  ELSE [err |-> "", data |-> Lookup(objs, kind, key, t)]

\* LocalStorage.Get / MinIOStorage.Get at time t
StorageGet(objs, kind, key, t) ==
  IF Lookup(objs, kind, key, t) = {}
  THEN [err |-> "report not found", data |-> {}]
  ELSE IF \E o \in Lookup(objs, kind, key, t) : After(t, o.ExpiresAt)
  THEN [err |-> "report expired", data |-> {}]
  ELSE [err |-> "", data |-> Lookup(objs, kind, key, t)]

\* ---------------------------------------------------------- report worker
\* variant: a MarkCompleted that renews the lifetime of the check
MarkCompletedWriteRenewing(check, group, p, reportKey) ==
  IF group = "status"
  THEN [check EXCEPT !.Status = StatusCompleted]
  ELSE [check EXCEPT !.RiskScore = p.RiskScore, !.RiskLevel = p.RiskLevel,
                     !.Categories = p.Categories, !.Sanctions = p.Sanctions,
                     !.ReportKey = reportKey, !.UpdatedAt = now,
                     !.ExpiresAt = now + CheckTTL]

\* AMLCheck.MarkCompleted, one group of its field writes
MarkCompletedWrite(check, group, p, reportKey) ==
  IF group = "status"
  THEN [check EXCEPT !.Status = StatusCompleted]
  ELSE [check EXCEPT !.RiskScore = p.RiskScore, !.RiskLevel = p.RiskLevel,
                     !.Categories = p.Categories, !.Sanctions = p.Sanctions,
                     !.ReportKey = reportKey, !.UpdatedAt = now]

\* AMLCheck.MarkFailed, one group of its field writes
MarkFailedWrite(check, group, errorMessage) ==
  IF group = "status"
  THEN [check EXCEPT !.Status = StatusFailed]
  ELSE [check EXCEPT !.ErrorMessage = errorMessage, !.UpdatedAt = now]

Marking(c, ref) == [c EXCEPT !.pc = "mark", !.ref = ref, !.pending = {"status", "fields"}]

\* the consumer of q_report_jobs takes the next delivery and runs
\* ReportWorker.handleMessage up to the use case's MarkCompleted / MarkFailed:
\* repository.Get, then for check.completed GeneratePDF and reportStorage.Put
LoadCheck ==
  LET q == QueueReportJobs
      c == Ctx(Head(queue[q]))
      body == c.msg.body
      ref == RepositoryGet(body.check)
  IN
  /\ ConsumerReady(q)
  /\ queue[q] # <<>>
  /\ queue' = Dequeued(q)
  /\ UNCHANGED <<now, requests, heap, checks, dlq, dlx, settled, published,
                 config, consumer, down, faults, replays, waiter, lastIntake, ret>>
  /\ IF body.type \notin {EventAMLCheckCompleted, EventAMLCheckFailed}
     THEN /\ hs' = [hs EXCEPT ![q] = @ \cup {Returned(c, UnknownEventType)}]
          /\ UNCHANGED objects
     ELSE IF ref = NilRef
     THEN /\ hs' = [hs EXCEPT ![q] = @ \cup {Returned(c, "check not found")}]
          /\ UNCHANGED objects
     ELSE IF body.type = EventAMLCheckFailed
     THEN /\ hs' = [hs EXCEPT ![q] = @ \cup {Marking(c, ref)}]
          /\ UNCHANGED objects
     ELSE IF ~Up("storage")
     THEN /\ hs' = [hs EXCEPT ![q] = @ \cup {Returned(c, "failed to store report")}]
          /\ UNCHANGED objects
     ELSE /\ objects' = StoragePut(objects, config.storage, ReportKeyOf(body.check), now)
          /\ hs' = [hs EXCEPT ![q] = @ \cup {Marking(c, ref)}]

MarkWrite(check, g, body) ==
  IF body.type = EventAMLCheckCompleted
  THEN MarkCompletedWrite(check, g, body.payload, ReportKeyOf(body.check))
  ELSE MarkFailedWrite(check, g, body.payload.ErrorMessage)

\* the first writes of check.MarkCompleted(...) / check.MarkFailed(...):
\* unsynchronised writes through the reference Get returned, which other
\* goroutines may see in any order
Mark ==
  \E c \in hs[QueueReportJobs] : \E g \in c.pending :
    /\ c.pc = "mark"
    /\ c.pending # {g}
    /\ heap' = [heap EXCEPT ![c.ref] = MarkWrite(@, g, c.msg.body)]
    /\ hs' = Replace(QueueReportJobs, c, [c EXCEPT !.pending = @ \ {g}])
    /\ UNCHANGED <<now, requests, checks, queue, dlq, dlx, settled, published, objects,
                   config, consumer, down, faults, replays, waiter, lastIntake, ret>>

\* variant: a failed publish of report.ready is returned to the worker
AfterUpdateErrorPropagated == IF Up("bus") THEN "" ELSE "failed to publish report ready event"

\* what Execute returns once repository.Update has succeeded: the errors of the
\* report.ready publish and of the billing hook are logged, "return nil"
AfterUpdateError == ""

ReportReadyPayload(checkID) == [ReportKey |-> ReportKeyOf(checkID)]

\* the last write of MarkCompleted / MarkFailed, then repository.Update, then for
\* check.completed the publish of report.ready and the billing hook, whose
\* failures are logged and not returned
Update ==
  \E c \in hs[QueueReportJobs] : \E g \in c.pending :
    LET body == c.msg.body
        ready == NewEvent(EventAMLReportReady, body.check, ReportReadyPayload(body.check))
    IN
    /\ c.pc = "mark"
    /\ c.pending = {g}
    /\ heap' = [heap EXCEPT ![c.ref] = MarkWrite(@, g, body)]
    /\ UNCHANGED <<now, requests, queue, dlq, dlx, settled, objects, config, consumer,
                   down, faults, replays, waiter, lastIntake, ret>>
    /\ IF RepositoryUpdate(c.ref).err # ""
       THEN /\ hs' = Replace(QueueReportJobs, c, Returned(c, "failed to update check"))
            /\ UNCHANGED <<checks, published>>
       ELSE /\ checks' = RepositoryUpdate(c.ref).checks
            /\ hs' = Replace(QueueReportJobs, c, Returned(c, AfterUpdateError))
            /\ published' = IF body.type = EventAMLCheckCompleted /\ Up("bus")
                            THEN published \cup {ready} ELSE published

\* ------------------------------------------------------------ bounded wait
\* GetCheckStatusUseCase.Execute: "ok" with the check, or the error
GetCheckStatus(checkID) ==
  IF checkID \notin DOMAIN checks THEN "check not found"
  ELSE IF IsExpired(Visible(checkID)) THEN "check expired"
  ELSE "ok"

\* variant: the poll answers a Failed check like a Completed one
PollFailedAsResult(id) ==
  /\ waiter[id].pc = "waiting"
  /\ waiter' = [waiter EXCEPT ![id] =
       IF GetCheckStatus(id) = "ok" /\ Visible(id).Status # StatusProcessing
       THEN [@ EXCEPT !.pc = "done", !.code = 200]
       ELSE @]
  /\ UNCHANGED <<now, requests, heap, checks, queue, hs, dlq, dlx, settled, published,
                 objects, config, consumer, down, faults, replays, lastIntake, ret>>

\* the poll of Handlers.CheckAddress: case <-ticker.C
Poll(id) ==
  /\ waiter[id].pc = "waiting"
  /\ waiter' = [waiter EXCEPT ![id] =
       IF GetCheckStatus(id) = "ok" /\ Visible(id).Status = StatusCompleted
       THEN [@ EXCEPT !.pc = "done", !.code = 200]
       ELSE IF GetCheckStatus(id) = "ok" /\ Visible(id).Status = StatusFailed
       THEN [@ EXCEPT !.pc = "done", !.code = 502]
       ELSE @]
  /\ UNCHANGED <<now, requests, heap, checks, queue, hs, dlq, dlx, settled, published,
                 objects, config, consumer, down, faults, replays, lastIntake, ret>>

\* variant: the timeout answers only for a check the lookup can read
TimeoutIfReadable(id) ==
  /\ waiter[id].pc = "waiting"
  /\ now >= waiter[id].deadline
  /\ GetCheckStatus(id) = "ok"
  /\ waiter' = [waiter EXCEPT ![id] = [@ EXCEPT !.pc = "done", !.code = 202, !.handle = id]]
  /\ UNCHANGED <<now, requests, heap, checks, queue, hs, dlq, dlx, settled, published,
                 objects, config, consumer, down, faults, replays, lastIntake, ret>>

\* the timeout of Handlers.CheckAddress: case <-ctx.Done()
Timeout(id) ==
  /\ waiter[id].pc = "waiting"
  /\ now >= waiter[id].deadline
  /\ waiter' = [waiter EXCEPT ![id] = [@ EXCEPT !.pc = "done", !.code = 202, !.handle = id]]
  /\ UNCHANGED <<now, requests, heap, checks, queue, hs, dlq, dlx, settled, published,
                 objects, config, consumer, down, faults, replays, lastIntake, ret>>

\* ------------------------------------------------------------ redelivery
\* the broker delivers an already acknowledged message of queue q once more
Replay(q) ==
  /\ replays < MaxReplays
  /\ \E st \in settled :
       /\ st.queue = q /\ st.outcome = "ack" /\ st.replay = 0
       /\ \E b \in published :
            /\ b.id = st.event
            /\ queue' = [queue EXCEPT ![q] =
                           Append(@, Message(b, b.type,
                                             IF st.retry = 0 THEN NoHeaders
                                             ELSE RetryHeader(st.retry), 1))]
  /\ replays' = replays + 1
  /\ UNCHANGED <<now, requests, heap, checks, hs, dlq, dlx, settled, published,
                 objects, config, consumer, down, faults, waiter, lastIntake, ret>>

\* the steps of the program and of its clock
Pipeline ==
  \/ \E r \in Requests : CheckAddress(r)
  \/ Tick
  \/ CleanupExpired
  \/ StorageCleanupExpired
  \/ \E q \in Queues : Settle(q)
  \/ ProcessAMLCheck
  \/ LoadCheck
  \/ Mark
  \/ Update
  \/ \E id \in Ids : Poll(id)
  \/ \E id \in Ids : Timeout(id)

\* the pipeline with collaborators that fail and recover
Next == Pipeline \/ \E k \in Collaborators : Toggle(k)

Spec == Init /\ [][Next]_vars

\* the pipeline with healthy collaborators and a broker that redelivers
NextReplay == Pipeline \/ \E q \in Queues : Replay(q)

ReplaySpec == Init /\ [][NextReplay]_vars

\* the pipeline with a report storage that fails and recovers, and workers
\* that keep running: each consumer goroutine loops over its deliveries, so a
\* delivery that can be taken, a handler that can continue and a verdict that
\* can be settled are eventually taken, continued and settled
NextFair == Pipeline \/ Toggle("storage")

WorkersRun ==
  /\ WF_vars(ProcessAMLCheck)
  /\ WF_vars(LoadCheck)
  /\ WF_vars(Mark)
  /\ WF_vars(Update)
  /\ \A q \in Queues : WF_vars(Settle(q))

FairSpec == Init /\ [][NextFair]_vars /\ WorkersRun

\* ------------------------------------------------------------ report token
\* base64.URLEncoding of the bytes a payload is made of, one byte at a time: the
\* two characters that carry the byte; no code has a "." or a ":" in it
B64Code ==
  ("0" :> "MA") @@ ("1" :> "MQ") @@ ("2" :> "Mg") @@ ("3" :> "Mw") @@ ("4" :> "NA") @@
  ("5" :> "NQ") @@ ("6" :> "Ng") @@ ("7" :> "Nw") @@ ("8" :> "OA") @@ ("9" :> "OQ") @@
  (":" :> "Og") @@ ("." :> "Lg") @@ ("-" :> "LQ") @@ ("p" :> "cA") @@ ("d" :> "ZA") @@
  ("f" :> "Zg")

EncodeToString(s) == [i \in DOMAIN s |-> B64Code[s[i]]]

\* base64.URLEncoding.DecodeString: fails on anything that is not a code
DecodeString(e) ==
  IF \A i \in DOMAIN e : \E c \in DOMAIN B64Code : B64Code[c] = e[i]
  THEN [ok |-> TRUE, s |-> [i \in DOMAIN e |-> CHOOSE c \in DOMAIN B64Code : B64Code[c] = e[i]]]
  ELSE [ok |-> FALSE, s |-> <<>>]

\* hmac.New(sha256.New, secret) over msg, base64 encoded: a keyed function
\* without collisions, written as the secret followed by the message
Mac(secret, msg) == <<secret>> \o msg

\* strings.SplitN(s, sep, 2)
SplitN(s, sep) ==
  IF sep \notin Range(s) THEN <<s>>
  ELSE LET i == Min({j \in DOMAIN s : s[j] = sep}) IN
       <<SubSeq(s, 1, i - 1), SubSeq(s, i + 1, Len(s))>>

DigitValue(c) == (CHOOSE i \in DOMAIN DigitSeq : DigitSeq[i] = c) - 1

RECURSIVE DigitsValue(_)
DigitsValue(d) ==
  IF d = <<>> THEN 0
  ELSE DigitsValue(SubSeq(d, 1, Len(d) - 1)) * 10 + DigitValue(d[Len(d)])

\* strconv.ParseInt(s, 10, 64), for values that fit
ParseInt(s) ==
  LET signed == s # <<>> /\ s[1] \in {"-", "+"}
      digits == IF signed THEN Tail(s) ELSE s
  IN IF digits = <<>> \/ \E i \in DOMAIN digits : digits[i] \notin DigitChars
     THEN [ok |-> FALSE, n |-> 0]
     ELSE [ok |-> TRUE,
           n |-> IF signed /\ s[1] = "-" THEN 0 - DigitsValue(digits) ELSE DigitsValue(digits)]

\* the token of an encoded payload and a tag: fmt.Sprintf("%s.%s", ...)
TokenOf(encodedPayload, signature) == encodedPayload \o <<".">> \o signature

\* HMACToken.Sign at time t
Sign(secret, key, expires, t) ==
  LET payload == key \o <<":">> \o Itoa(t + expires)
      encodedPayload == EncodeToString(payload)
  IN TokenOf(encodedPayload, Mac(secret, encodedPayload))

Rejected(err) == [key |-> <<>>, err |-> err]

\* variant: a Verify that does not compare the tag
VerifyUnsigned(secret, token, t) ==
  LET parts == SplitN(token, ".") IN
  IF Len(parts) # 2 THEN Rejected("invalid token format")
  ELSE IF ~DecodeString(parts[1]).ok THEN Rejected("invalid token encoding")
  ELSE LET payloadParts == SplitN(DecodeString(parts[1]).s, ":") IN
       IF Len(payloadParts) # 2 THEN Rejected("invalid token payload")
       ELSE IF ~ParseInt(payloadParts[2]).ok THEN Rejected("invalid expiration time")
       ELSE IF t > ParseInt(payloadParts[2]).n THEN Rejected("token expired")
       ELSE [key |-> payloadParts[1], err |-> ""]

\* HMACToken.Verify at time t
Verify(secret, token, t) ==
  LET parts == SplitN(token, ".") IN
  IF Len(parts) # 2 THEN Rejected("invalid token format")
  ELSE IF parts[2] # Mac(secret, parts[1]) THEN Rejected("invalid token signature")
  ELSE IF ~DecodeString(parts[1]).ok THEN Rejected("invalid token encoding")
  ELSE LET payloadParts == SplitN(DecodeString(parts[1]).s, ":") IN
       IF Len(payloadParts) # 2 THEN Rejected("invalid token payload")
       ELSE IF ~ParseInt(payloadParts[2]).ok THEN Rejected("invalid expiration time")
       ELSE IF t > ParseInt(payloadParts[2]).n THEN Rejected("token expired")
       ELSE [key |-> payloadParts[1], err |-> ""]

\* the secret of the server's token provider, and one it does not have
TokenSecret == "change-me-in-production"
OtherSecret == "guessed"

\* ------------------------------------------------------------ cancellation
\* AMLWorker.Stop / ReportWorker.Stop: w.cancel() closes ctx.Done() of the
\* subscription of queue q
Stop(q) ==
  /\ consumer[q] = "running"
  /\ consumer' = [consumer EXCEPT ![q] = "cancelled"]
  /\ UNCHANGED <<now, requests, heap, checks, queue, hs, dlq, dlx, settled, published,
                 objects, config, down, faults, replays, waiter, lastIntake, ret>>

\* the select of the consumption loop takes case <-ctx.Done() and the goroutine
\* returns; when a delivery is ready as well, select may take either case, and
\* the other choice is the handler action of the queue
ConsumerExit(q) ==
  /\ consumer[q] = "cancelled"
  /\ hs[q] = {}
  /\ consumer' = [consumer EXCEPT ![q] = "stopped"]
  /\ UNCHANGED <<now, requests, heap, checks, queue, hs, dlq, dlx, settled, published,
                 objects, config, down, faults, replays, waiter, lastIntake, ret>>

\* ------------------------------------------------------- foreign messages
\* another publisher on the exchange sends, under a routing key q is bound to,
\* an event whose type tag the worker of q does not handle (at most one; its
\* id 0 is the id of no event this program publishes)
ForeignPublish(q) ==
  /\ \A q2 \in Queues :
       /\ \A i \in 1..Len(queue[q2]) : queue[q2][i].body.type # EventAMLReportReady
       /\ \A c \in hs[q2] : c.msg.body.type # EventAMLReportReady
  /\ \A st \in settled : st.type # EventAMLReportReady
  /\ \E id \in Ids : \E k \in RoutingKeys(q) :
       queue' = Route(queue, k,
                      Message([id |-> 0, type |-> EventAMLReportReady, check |-> id,
                               payload |-> ReportReadyPayload(id)], k, NoHeaders, 0))
  /\ UNCHANGED <<now, requests, heap, checks, hs, dlq, dlx, settled, published, objects,
                 config, consumer, down, faults, replays, waiter, lastIntake, ret>>

\* the workers and the bus with a foreign publisher on the exchange
NextTag ==
  \/ \E r \in Requests : CheckAddress(r)
  \/ \E q \in Queues : ForeignPublish(q)
  \/ \E q \in Queues : Settle(q)
  \/ ProcessAMLCheck
  \/ LoadCheck
  \/ Mark
  \/ Update

TagSpec == Init /\ [][NextTag]_vars

\* the workers and the bus with subscriptions that are cancelled
NextStop ==
  \/ \E r \in Requests : CheckAddress(r)
  \/ \E q \in Queues : Settle(q)
  \/ ProcessAMLCheck
  \/ LoadCheck
  \/ Mark
  \/ Update
  \/ \E q \in Queues : Stop(q)
  \/ \E q \in Queues : ConsumerExit(q)

StopSpec == Init /\ [][NextStop]_vars

\* ------------------------------------------------- the registry, called directly
\* the ids of the checks a caller of the registry makes up
RegistryIds == 1..MaxIds

\* a caller builds a check: domain.NewAMLCheck, here with a chosen id
Allocate(id) ==
  LET ref == Cardinality(DOMAIN heap) + 1 IN
  /\ ref <= MaxObjects
  /\ heap' = heap @@ (ref :> NewAMLCheck(id, EthereumNormalizeAddress(EthAddrPadded),
                                          <<"E","T","H">>, now))
  /\ UNCHANGED <<now, requests, checks, queue, hs, dlq, dlx, settled, published,
                 objects, config, consumer, down, faults, replays, waiter, lastIntake, ret>>

\* a caller marks a check it holds, stored in the registry or not: check.MarkFailed
MarkObject(ref) ==
  /\ ref \in DOMAIN heap
  /\ heap[ref].Status = StatusProcessing
  /\ heap' = [heap EXCEPT ![ref] =
                MarkFailedWrite(MarkFailedWrite(@, "status", "failed"), "fields", "failed")]
  /\ UNCHANGED <<now, requests, checks, queue, hs, dlq, dlx, settled, published,
                 objects, config, consumer, down, faults, replays, waiter, lastIntake, ret>>

\* repo.Create(ctx, check)
CallCreate(ref) ==
  /\ ref \in DOMAIN heap
  /\ checks' = RepositoryCreate(ref).checks
  /\ ret' = [op |-> "Create", id |-> heap[ref].ID, ref |-> ref,
             err |-> RepositoryCreate(ref).err]
  /\ UNCHANGED <<now, requests, heap, queue, hs, dlq, dlx, settled, published,
                 objects, config, consumer, down, faults, replays, waiter, lastIntake>>

\* repo.Get(ctx, id)
CallGet(id) ==
  /\ ret' = [op |-> "Get", id |-> id, ref |-> RepositoryGet(id), err |-> ""]
  /\ UNCHANGED <<now, requests, heap, checks, queue, hs, dlq, dlx, settled, published,
                 objects, config, consumer, down, faults, replays, waiter, lastIntake>>

\* repo.Update(ctx, check)
CallUpdate(ref) ==
  /\ ref \in DOMAIN heap
  /\ checks' = RepositoryUpdate(ref).checks
  /\ ret' = [op |-> "Update", id |-> heap[ref].ID, ref |-> ref,
             err |-> RepositoryUpdate(ref).err]
  /\ UNCHANGED <<now, requests, heap, queue, hs, dlq, dlx, settled, published,
                 objects, config, consumer, down, faults, replays, waiter, lastIntake>>

\* repo.CleanupExpired(ctx, now)
CallCleanupExpired ==
  /\ checks' = RepositoryCleanupExpired(now).checks
  /\ ret' = [op |-> "CleanupExpired", t |-> now, count |-> RepositoryCleanupExpired(now).count,
             err |-> ""]
  /\ UNCHANGED <<now, requests, heap, queue, hs, dlq, dlx, settled, published,
                 objects, config, consumer, down, faults, replays, waiter, lastIntake>>

NextRegistry ==
  \/ \E id \in RegistryIds : Allocate(id)
  \/ \E ref \in 1..MaxObjects : MarkObject(ref)
  \/ \E ref \in 1..MaxObjects : CallCreate(ref)
  \/ \E id \in RegistryIds : CallGet(id)
  \/ \E ref \in 1..MaxObjects : CallUpdate(ref)
  \/ CallCleanupExpired
  \/ Tick

\* the registry of the default wiring, empty
InitRegistry == Init /\ config.storage = "local"

RegistrySpec == InitRegistry /\ [][NextRegistry]_vars

\* ------------------------------------------------------------ HTTP queries
\* strings.Contains(err.Error(), sub), over the errors the use cases, the token
\* and the storage return
Contains(err, sub) ==
  \/ sub = "not found" /\ err \in {"check not found", "report not found"}
  \/ sub = "expired" /\ err \in {"check expired", "report expired", "token expired"}

\* ids a client may ask for: the ids handed out and one that never is
QueryIds == 1..(MaxRequests + 1)

\* Handlers.respondCheckResult: 200, the stored result and a signed report link
RespondCheckResult(check) ==
  [code |-> 200, RiskScore |-> check.RiskScore, RiskLevel |-> check.RiskLevel,
   Categories |-> check.Categories, Sanctions |-> check.Sanctions,
   key |-> check.ReportKey, expiresAt |-> now + TokenLifetime,
   token |-> Sign(TokenSecret, check.ReportKey, TokenLifetime, now)]

\* variant: a status handler that answers a failed check like a processing one
StatusResponseFailedAsProcessing(id) ==
  IF Contains(GetCheckStatus(id), "not found") THEN [code |-> 404]
  ELSE IF Contains(GetCheckStatus(id), "expired") THEN [code |-> 410]
  ELSE IF Visible(id).Status \in {StatusProcessing, StatusFailed}
  THEN [code |-> 202, PollURL |-> id]
  ELSE RespondCheckResult(Visible(id))

\* Handlers.GetCheckStatus: the response to GET /v1/check-address/{id}
StatusResponse(id) ==
  IF Contains(GetCheckStatus(id), "not found") THEN [code |-> 404]
  ELSE IF Contains(GetCheckStatus(id), "expired") THEN [code |-> 410]
  ELSE IF GetCheckStatus(id) # "ok" THEN [code |-> 500]
  ELSE IF Visible(id).Status = StatusProcessing THEN [code |-> 202, PollURL |-> id]
  ELSE IF Visible(id).Status = StatusFailed
  THEN [code |-> 500, Error |-> Visible(id).ErrorMessage]
  ELSE RespondCheckResult(Visible(id))

\* a client asks for the status of id
\* variant: a status query that evicts the expired record it finds
StatusQueryEvicting(id) ==
  /\ ret' = [op |-> "GetCheckStatus", id |-> id, response |-> StatusResponse(id)]
  /\ checks' = IF id \in DOMAIN checks /\ IsExpired(Visible(id))
               THEN [i \in DOMAIN checks \ {id} |-> checks[i]] ELSE checks
  /\ UNCHANGED <<now, requests, heap, queue, hs, dlq, dlx, settled, published,
                 objects, config, consumer, down, faults, replays, waiter, lastIntake>>

StatusQuery(id) ==
  /\ ret' = [op |-> "GetCheckStatus", id |-> id, response |-> StatusResponse(id)]
  /\ UNCHANGED <<now, requests, heap, checks, queue, hs, dlq, dlx, settled, published,
                 objects, config, consumer, down, faults, replays, waiter, lastIntake>>

\* LocalStorage.PresignGet / MinIOStorage.PresignGet: LocalStorage has no URL to
\* give, MinIOStorage presigns the first object it finds, whatever its expiry
StoragePresignGet(objs, kind, key, t) ==
  IF kind # "minio" THEN [url |-> {}, err |-> ""]
  ELSE IF Lookup(objs, kind, key, t) = {} THEN [url |-> {}, err |-> "report not found"]
  ELSE [url |-> Lookup(objs, kind, key, t), err |-> ""]

\* Handlers.GetReport: the status code of GET /v1/report/{token}
ReportResponse(token) ==
  LET verified == Verify(TokenSecret, token, now)
      presigned == StoragePresignGet(objects, config.storage, verified.key, now)
      got == StorageGet(objects, config.storage, verified.key, now)
  IN
  IF verified.err # ""
  THEN IF Contains(verified.err, "expired") THEN 410 ELSE 400
  ELSE IF presigned.err = "" /\ presigned.url # {} THEN 302
  ELSE IF got.err = "" THEN 200
  ELSE IF Contains(got.err, "not found") THEN 404
  ELSE IF Contains(got.err, "expired") THEN 410
  ELSE 500

\* the link of the last 200 answer of the status query, which the client holds
Link == IF ret.op = "GetCheckStatus" THEN ret.response ELSE ret.link

HoldsLink ==
  \/ ret.op = "GetCheckStatus" /\ ret.response.code = 200
  \/ ret.op = "GetReport"

\* what a client makes of a link without the secret: the token cut short, and a
\* token for the same key made with another secret
Forged(link) ==
  {SubSeq(link.token, 1, Len(link.token) - 1),
   Sign(OtherSecret, link.key, TokenLifetime + 1, now)}

\* a client fetches the report with the token it holds, or with a forged one
ReportFetch ==
  /\ HoldsLink
  /\ \E token \in {Link.token} \cup Forged(Link) :
       ret' = [op |-> "GetReport", link |-> Link, presented |-> token, at |-> now,
               code |-> ReportResponse(token)]
  /\ UNCHANGED <<now, requests, heap, checks, queue, hs, dlq, dlx, settled, published,
                 objects, config, consumer, down, faults, replays, waiter, lastIntake>>

\* the pipeline with a risk provider that fails and recovers, and clients that
\* query the status and fetch the report; the wait of the intake handler, which
\* only reads, is left out
NextQuery ==
  \/ \E r \in Requests : CheckAddress(r)
  \/ Tick
  \/ CleanupExpired
  \/ StorageCleanupExpired
  \/ \E q \in Queues : Settle(q)
  \/ ProcessAMLCheck
  \/ LoadCheck
  \/ Mark
  \/ Update
  \/ Toggle("aml")
  \/ \E id \in QueryIds : StatusQuery(id)
  \/ ReportFetch

QuerySpec == Init /\ [][NextQuery]_vars

\* --------------------------------------------------- the wait and the query
\* the client of a waiting CheckAddress request goes away: r.Context() is
\* cancelled, case <-ctx.Done() of the wait loop runs before the deadline
Abandon(id) ==
  /\ waiter[id].pc = "waiting"
  /\ waiter' = [waiter EXCEPT ![id] = [@ EXCEPT !.pc = "done", !.code = 202, !.handle = id]]
  /\ UNCHANGED <<now, requests, heap, checks, queue, hs, dlq, dlx, settled, published,
                 objects, config, consumer, down, faults, replays, lastIntake, ret>>

\* the pipeline with the bounded wait and status queries of its clients
NextWait ==
  \/ \E r \in Requests : CheckAddress(r)
  \/ Tick
  \/ CleanupExpired
  \/ \E q \in Queues : Settle(q)
  \/ ProcessAMLCheck
  \/ LoadCheck
  \/ Mark
  \/ Update
  \/ \E id \in Ids : Poll(id)
  \/ \E id \in Ids : Timeout(id)
  \/ \E id \in Ids : Abandon(id)
  \/ \E id \in QueryIds : StatusQuery(id)

WaitSpec == Init /\ [][NextWait]_vars

\* time passes, and the timer of a wait whose deadline has come fires
TimersRun ==
  /\ WF_vars(Tick)
  /\ \A id \in Ids : WF_vars(Timeout(id))

WaitFairSpec == Init /\ [][NextWait]_vars /\ TimersRun

\* ------------------------------------------------ the token, called directly
\* keys respondCheckResult signs: the report key of a completed check, or the
\* empty key of a check whose MarkCompleted has not written it yet
TokenKeys == {ReportKeyOf(1), ReportKeyOf(12), NoKey}

TokenLifetimes == {0, 1, 10}

\* what somebody without the secret makes of a token: one place replaced
Replaced(token) ==
  {[token EXCEPT ![i] = u] : i \in DOMAIN token, u \in {"MA", "MQ", "Og", "Lg", "."}}
    \ {token}

\* a token cut short
Truncated(token) == {SubSeq(token, 1, k) : k \in 0..(Len(token) - 1)}

\* the payload of the same key with another expiry or of another key, under the
\* tag of the token
Repacked(signed) ==
  {TokenOf(SplitN(Sign(TokenSecret, k, e, 0), ".")[1], SplitN(signed.token, ".")[2]) :
     k \in TokenKeys, e \in {signed.expiresAt + 1, signed.expiresAt + 10}}

\* tokens made with another secret
Resigned(signed) ==
  {Sign(OtherSecret, k, e, 0) : k \in TokenKeys, e \in {signed.expiresAt, signed.expiresAt + 10}}

Tampered(signed) ==
  Replaced(signed.token) \cup Truncated(signed.token) \cup Repacked(signed) \cup Resigned(signed)

\* tokenProvider.Sign(key, expires)
CallSign(key, expires) ==
  /\ ret' = [op |-> "Sign", key |-> key, expiresAt |-> now + expires,
             token |-> Sign(TokenSecret, key, expires, now)]
  /\ UNCHANGED <<now, requests, heap, checks, queue, hs, dlq, dlx, settled, published,
                 objects, config, consumer, down, faults, replays, waiter, lastIntake>>

\* tokenProvider.Verify(token) of the token last signed, or of one made from it
CallVerify ==
  /\ ret.op \in {"Sign", "Verify"}
  /\ \E token \in {ret.token} \cup Tampered(ret) :
       ret' = [op |-> "Verify", key |-> ret.key, expiresAt |-> ret.expiresAt,
               token |-> ret.token, presented |-> token, at |-> now,
               out |-> Verify(TokenSecret, token, now)]
  /\ UNCHANGED <<now, requests, heap, checks, queue, hs, dlq, dlx, settled, published,
                 objects, config, consumer, down, faults, replays, waiter, lastIntake>>

NextToken ==
  \/ \E key \in TokenKeys, expires \in TokenLifetimes : CallSign(key, expires)
  \/ CallVerify
  \/ Tick

TokenSpec == InitRegistry /\ [][NextToken]_vars

\* ------------------------------------------------------------ properties
Terminal(status) == status \in {StatusCompleted, StatusFailed}

\* the ids whose record the registry holds before and after a step
Kept == DOMAIN checks \cap DOMAIN checks'

\* C1: the status of a check in the registry changes only from Processing to
\* Completed or to Failed, and a Completed or Failed check keeps its status in
\* every later step, whichever events are handled for its id
C1_StatusOneWay ==
  [][\A id \in Kept :
       LET before == heap[checks[id]].Status
           after == heap'[checks'[id]].Status
       IN before # after => before = StatusProcessing /\ Terminal(after)]_vars

\* a check that a check.failed event made Failed has been made Completed by the
\* check.completed event of the retried request
C1_FailedThenCompleted ==
  \E id \in DOMAIN checks :
    /\ Visible(id).Status = StatusCompleted
    /\ Visible(id).ErrorMessage # ""

\* the dead-letter messages published for event e, as positions of dlx
DeadLettersOf(e) == {i \in 1..Len(dlx) : dlx[i].body.id = e}

\* event e waits in a queue / is being handled
Queued(e) == \E q \in Queues : \E i \in 1..Len(queue[q]) : queue[q][i].body.id = e

InFlight(e) == \E q \in Queues : \E c \in hs[q] : c.msg.body.id = e

FailedAt(e, n) == \E st \in settled : st.event = e /\ st.retry = n /\ st.err # ""

SettledEvents == {st.event : st \in settled}

\* C3: a message whose handler failed at retry counts 0, 1 and 2 and succeeded
\* at retry count 3 is acknowledged by that fourth invocation, waits in no queue
\* and is in no handler afterwards, and no dead-letter message exists for it; no
\* message that has not failed at retry count 3 has a dead-letter message
C3_SuccessAfterRetries ==
  /\ \A st \in settled :
       st.err = "" /\ st.retry = MaxRetries =>
         /\ st.outcome = "ack"
         /\ \A n \in 0..MaxRetries - 1 : FailedAt(st.event, n)
         /\ DeadLettersOf(st.event) = {}
         /\ ~Queued(st.event)
         /\ ~InFlight(st.event)
  /\ \A e \in SettledEvents :
       ~FailedAt(e, MaxRetries) => DeadLettersOf(e) = {}

\* a delivery with retry count 3 has succeeded and been acknowledged
C3_AckedOnFourth ==
  \E st \in settled : st.err = "" /\ st.retry = MaxRetries /\ st.outcome = "ack"

\* the stored report objects of a check
ReportObjects(id) == {o \in objects : o.Key = ReportKeyOf(id)}

\* the report worker has handled event e successfully, both its first delivery
\* and a redelivery
HandledTwice(e) ==
  /\ \E st \in settled : st.event = e /\ st.outcome = "ack" /\ st.replay = 0
  /\ \E st \in settled : st.event = e /\ st.outcome = "ack" /\ st.replay = 1

CompletedEvents == {e \in published : e.type = EventAMLCheckCompleted}

\* the terminal fields of a record are those of the payload of event e
MatchesPayload(check, e) ==
  /\ check.Status = StatusCompleted
  /\ check.RiskScore = e.payload.RiskScore
  /\ check.RiskLevel = e.payload.RiskLevel
  /\ check.Categories = e.payload.Categories
  /\ check.Sanctions = e.payload.Sanctions
  /\ check.ReportKey = ReportKeyOf(e.check)

\* the registry part of C4: after the report worker has handled the same
\* check.completed event twice, the record of the check is Completed with the
\* score, level, categories, sanctions and report key of the event
SameTerminalState ==
  \A e \in CompletedEvents :
    HandledTwice(e.id) /\ e.check \in DOMAIN checks => MatchesPayload(Visible(e.check), e)

\* C4: after the report worker has handled the same check.completed event twice,
\* the registry record of the check is Completed with the fields of the event,
\* and the report storage holds no second object for the report key of the check
C4_ReplayIdempotent ==
  /\ SameTerminalState
  /\ \A e \in CompletedEvents :
       HandledTwice(e.id) => Cardinality(ReportObjects(e.check)) <= 1

\* two report objects exist for one check after a redelivery
C4_TwoObjects ==
  \E e \in CompletedEvents : HandledTwice(e.id) /\ Cardinality(ReportObjects(e.check)) = 2

\* the deliveries of queue q that are being handled for check id
InFlightFor(q, id) == {c \in hs[q] : c.msg.body.check = id}

\* C5: every subscription has at most one delivery between the start of its
\* handler and its acknowledgement, so at most one risk assessment (and at most
\* one report job) is in flight for a check id, retried messages included
C5_OneInFlight ==
  /\ \A q \in Queues : Cardinality(hs[q]) <= 1
  /\ \A id \in Ids : \A q \in Queues : Cardinality(InFlightFor(q, id)) <= 1

\* a delivery is being handled while a republished message waits in the same queue
C5_RetryWaitsBehindHandler ==
  \E q \in Queues :
    /\ hs[q] # {}
    /\ queue[q] # <<>>
    /\ RetryCountOf(Head(queue[q])) > 0

\* C6: the record a reader gets from the registry for an id never has status
\* Completed together with a report key or a risk level that is not set yet
C6_NoTornRecord ==
  \A id \in DOMAIN checks :
    Visible(id).Status = StatusCompleted =>
      /\ Visible(id).ReportKey # NoKey
      /\ Visible(id).RiskLevel # ""

\* the registry shows a Completed check without report key while the report
\* worker that is marking it has not called Update yet
C6_VisibleBeforeUpdate ==
  \E id \in DOMAIN checks :
    /\ Visible(id).Status = StatusCompleted
    /\ Visible(id).ReportKey = NoKey
    /\ \E c \in hs[QueueReportJobs] : c.pc = "mark" /\ c.ref = checks[id]

\* the CheckAddress request of check id answers in this step
Responds(id) == waiter[id].pc = "waiting" /\ waiter'[id].pc = "done"

\* what a status query for id reads: the status of the check, or "" when the
\* check is missing or expired
Readable(id) == IF GetCheckStatus(id) = "ok" THEN Visible(id).Status ELSE ""

\* C7 as stated: a request whose check was Completed or Failed in the registry
\* when its wait elapsed does not answer 'still processing' (202)
C7_TerminalBeforeTimeout ==
  \A id \in Ids : waiter[id].code = 202 => ~waiter[id].inTime

\* C7 amended: a poll of a waiting request that finds the check Completed
\* answers 200 and one that finds it Failed answers 502; a request answers
\* 200 or 502 only for a check it read as Completed or Failed, and answers
\* 'still processing' only once its wait has elapsed
C7_PollReturnsTerminal ==
  [][\A id \in Ids :
       /\ Poll(id) /\ Terminal(Readable(id)) => Responds(id)
       /\ Responds(id) =>
            \/ waiter'[id].code = 200 /\ Readable(id) = StatusCompleted
            \/ waiter'[id].code = 502 /\ Readable(id) = StatusFailed
            \/ waiter'[id].code = 202 /\ now >= waiter[id].deadline]_vars

\* a request has answered 502 for a check that is Failed in the registry
C7_FailureReturned ==
  \E id \in DOMAIN checks : waiter[id].code = 502 /\ Visible(id).Status = StatusFailed

\* intake accepted check id and its request waits or has answered
Accepted(id) == waiter[id].pc # "none"

\* a delivery for check id has left the retry protocol unhandled: dead-lettered,
\* or rejected without requeue
GivenUp(id) ==
  \E st \in settled : st.check = id /\ st.outcome \in {"dead-lettered", "dropped"}

\* check id has been made Completed or Failed (its record keeps that status
\* also after the registry has evicted it)
BecameTerminal(id) == id \in DOMAIN heap /\ Terminal(heap[id].Status)

ReportWorkerHandled(id) ==
  \/ \E c \in hs[QueueReportJobs] :
       /\ c.msg.body.check = id
       /\ c.msg.body.type \in {EventAMLCheckCompleted, EventAMLCheckFailed}
  \/ \E st \in settled :
       /\ st.queue = QueueReportJobs
       /\ st.check = id
       /\ st.type \in {EventAMLCheckCompleted, EventAMLCheckFailed}

\* intake accepts a request in this step
Accepts == requests' = requests + 1 /\ lastIntake'.result = "accepted"

\* C9: when intake accepts a request, the id it returns is new, is in the
\* registry and has status Processing; and after every step a check that is
\* Completed or Failed in the registry is one for which the report worker has
\* taken a check.completed or check.failed event
C9_ProcessingUntilReported ==
  [][/\ Accepts =>
          /\ lastIntake'.id \notin DOMAIN checks
          /\ lastIntake'.id \in DOMAIN checks'
          /\ heap'[checks'[lastIntake'.id]].Status = StatusProcessing
     /\ \A id \in DOMAIN checks' :
          Terminal(heap'[checks'[id]].Status) => ReportWorkerHandled(id)']_vars

\* an accepted check is Processing in the registry while its request event
\* waits for the AML worker
C9_AcceptedIsProcessing ==
  /\ lastIntake.result = "accepted"
  /\ lastIntake.id \in DOMAIN checks
  /\ Visible(lastIntake.id).Status = StatusProcessing
  /\ queue[QueueAMLRequests] # <<>>

\* the asset registry does not know the currency of request r
UnsupportedCurrency(r) == AssetRegistryGet(r[2]) = <<>>

\* the normalized address of request r does not match the syntax of its asset
InvalidAddress(r) ==
  /\ ~UnsupportedCurrency(r)
  /\ ~ValidateAddress(AssetRegistryGet(r[2]), NormalizeAddress(AssetRegistryGet(r[2]), r[1]))

\* C10: a call of intake with an unknown currency fails with "unsupported
\* currency", one with an address that does not match its asset with "invalid
\* address", and neither creates a check record, publishes an event or starts
\* a wait: registry and bus are as before the call
C10_RejectionLeavesNoTrace ==
  [][\A r \in Requests :
       CheckAddress(r) /\ (UnsupportedCurrency(r) \/ InvalidAddress(r)) =>
         /\ lastIntake'.result =
              IF UnsupportedCurrency(r) THEN "unsupported currency" ELSE "invalid address"
         /\ lastIntake'.id = 0
         /\ UNCHANGED <<heap, checks, queue, published, dlq, dlx, waiter>>]_vars

\* intake has rejected a request and registry and bus are empty
C10_RejectedNothingCreated ==
  /\ lastIntake.result \in {"unsupported currency", "invalid address"}
  /\ requests = 1
  /\ DOMAIN checks = {}
  /\ published = {}

\* a direct call of CleanupExpired is made in this step
Sweeps == ret'.op = "CleanupExpired" /\ CallCleanupExpired

\* C11 as stated: CleanupExpired(now) removes every record whose ExpiresAt is
\* at or before now, a record with ExpiresAt equal to now included
C11_RemovesAtOrBefore ==
  [][Sweeps => \A id \in DOMAIN checks :
                 heap[checks[id]].ExpiresAt <= now => id \notin DOMAIN checks']_vars

\* C11 amended: CleanupExpired(now) removes exactly the records whose ExpiresAt
\* is before now and keeps one with ExpiresAt equal to now, leaves every other
\* record as it was, and returns the number of records it removed
C11_RemovesStrictlyBefore ==
  [][Sweeps =>
       /\ DOMAIN checks' = {id \in DOMAIN checks : heap[checks[id]].ExpiresAt >= now}
       /\ \A id \in DOMAIN checks' : checks'[id] = checks[id]
       /\ heap' = heap
       /\ ret'.count = Cardinality(DOMAIN checks) - Cardinality(DOMAIN checks')
       /\ ret'.err = ""]_vars

\* a sweep has removed one record and kept another
C11_SweptOneKeptOne ==
  /\ ret.op = "CleanupExpired"
  /\ ret.count = 1
  /\ Cardinality(DOMAIN checks) = 1
\* --------------------------------------------------------------- C12
ExpiredCheck(id) == id \in DOMAIN checks /\ After(now, heap[checks[id]].ExpiresAt)

ReadableCheck(id) == GetCheckStatus(id) = "ok"

ExpiredBlob(id) ==
  \E o \in objects : o.Key = ReportKeyOf(id) /\ After(now, o.ExpiresAt)

ReadableBlob(id) == StorageGet(objects, config.storage, ReportKeyOf(id), now).err = ""

\* a sweep of the registry or of the report storage leaves nothing behind whose
\* ExpiresAt is before the time of the sweep
SweepReclaims ==
  /\ CleanupExpired =>
       \A id \in DOMAIN checks' : ~After(now', heap'[checks'[id]].ExpiresAt)
  /\ StorageCleanupExpired => \A o \in objects' : ~After(now', o.ExpiresAt)

C13_CreateRejectsDuplicate ==
  [][\A ref \in DOMAIN heap :
       CallCreate(ref) =>
         /\ ret'.op = "Create" /\ heap' = heap
         /\ IF heap[ref].ID \in DOMAIN checks
            THEN ret'.err = "check already exists" /\ checks' = checks
            ELSE /\ ret'.err = ""
                 /\ DOMAIN checks' = DOMAIN checks \cup {heap[ref].ID}
                 /\ checks'[heap[ref].ID] = ref
                 /\ \A id \in DOMAIN checks : checks'[id] = checks[id]]_vars

\* a Create of a second check with a stored id has failed, with another record
\* in the registry besides
C13_DuplicateRejected ==
  /\ ret.op = "Create" /\ ret.err = "check already exists"
  /\ ret.id \in DOMAIN checks /\ checks[ret.id] # ret.ref
  /\ Cardinality(DOMAIN checks) = 2

\* --------------------------------------------------------------- C14
\* C14: Update of a check whose id is absent returns "check not found" and leaves
\* the registry, its set of ids included, as it was; Update of a check whose id
\* is present returns no error and stores that check under its id, the other
\* records staying, and a Get of that id called next returns that check
C14_UpdateNeverCreates ==
  [][/\ \A ref \in DOMAIN heap :
          CallUpdate(ref) =>
            /\ ret'.op = "Update" /\ heap' = heap
            /\ DOMAIN checks' = DOMAIN checks
            /\ IF heap[ref].ID \notin DOMAIN checks
               THEN ret'.err = "check not found" /\ checks' = checks
               ELSE /\ ret'.err = ""
                    /\ checks'[heap[ref].ID] = ref
                    /\ \A id \in DOMAIN checks \ {heap[ref].ID} : checks'[id] = checks[id]
     /\ (ret.op = "Update" /\ ret.err = "" /\ CallGet(ret.id)) =>
          /\ ret'.ref = ret.ref
          /\ heap'[ret'.ref] = heap[ret.ref]]_vars

\* an Update of a check with an absent id has failed while another record is
\* stored, and the id is still absent
C14_UpdateOfAbsentRejected ==
  /\ ret.op = "Update" /\ ret.err = "check not found"
  /\ ret.id \notin DOMAIN checks
  /\ DOMAIN checks # {}

\* --------------------------------------------------------------- C15
\* the registry stores something new for an id only in a successful Create or
\* Update of that check
StoredByCreateOrUpdate ==
  \A id \in DOMAIN checks' :
    (id \notin DOMAIN checks \/ checks'[id] # checks[id]) =>
      /\ ret'.op \in {"Create", "Update"} /\ ret'.err = ""
      /\ ret'.id = id /\ ret'.ref = checks'[id]

\* C15: Get returns no error; for an absent id it returns nil, for a present id
\* the check the registry stores for it, which is the check of the most recent
\* successful Create or Update of that id; Get changes neither the registry nor
\* any check
C15_GetNeverFails ==
  [][/\ StoredByCreateOrUpdate
     /\ \A id \in RegistryIds :
          CallGet(id) =>
            /\ ret'.op = "Get" /\ ret'.err = ""
            /\ ret'.ref = (IF id \in DOMAIN checks THEN checks[id] ELSE NilRef)
            /\ (ret.op \in {"Create", "Update"} /\ ret.err = "" /\ ret.id = id)
                 => ret'.ref = ret.ref
            /\ checks' = checks /\ heap' = heap]_vars

\* a Get of an absent id has returned nil without an error while the registry
\* holds another record
C15_NotFoundValue ==
  /\ ret.op = "Get" /\ ret.err = "" /\ ret.ref = NilRef
  /\ ret.id \notin DOMAIN checks
  /\ DOMAIN checks # {}

\* --------------------------------------------------------------- C16
\* the checks of the registry that MarkCompleted has written in full
MarkedCompleted ==
  {id \in DOMAIN checks :
     Visible(id).Status = StatusCompleted /\ Visible(id).ReportKey = ReportKeyOf(id)}

\* C16: every check the pipeline has marked Completed stores the risk level that
\* DeriveRiskLevel gives for the risk score it stores (below 30 Low, 30..59
\* Medium, 60..79 High, 80 and above Critical), with either risk provider
C16_LevelFollowsScore ==
  \A id \in MarkedCompleted :
    Visible(id).RiskLevel = DeriveRiskLevel(Visible(id).RiskScore)

\* a check is stored as Completed with the score 85 and the level Low
C16_CriticalScoreStoredLow ==
  \E id \in MarkedCompleted :
    /\ config.amlProvider = "amlbot"
    /\ Visible(id).RiskScore = 85
    /\ Visible(id).RiskLevel = "Low"

\* --------------------------------------------------------------- C17
\* C17: Verify of the token Sign made for a key returns that key and no error at
\* every time up to and including the expiry of the token, and "token expired"
\* after it; Verify of a token that differs from the signed one in its payload
\* or its tag returns an error; and whenever Verify returns no error, the key it
\* returns is the signed key
C17_VerifyReturnsSignedKey ==
  ret.op = "Verify" =>
    /\ (ret.presented = ret.token /\ ret.at <= ret.expiresAt) =>
          ret.out = [key |-> ret.key, err |-> ""]
    /\ (ret.presented = ret.token /\ ret.at > ret.expiresAt) =>
          ret.out = Rejected("token expired")
    /\ ret.presented # ret.token => ret.out.err # "" /\ ret.out.key = <<>>
    /\ ret.out.err = "" => ret.out.key = ret.key

\* the token of the report key of check 12 has been verified and its key
\* returned at the very time it expires
C17_AcceptedAtExpiry ==
  /\ ret.op = "Verify" /\ ret.key = ReportKeyOf(12)
  /\ ret.presented = ret.token /\ ret.at = ret.expiresAt /\ ret.at > 0
  /\ ret.out = [key |-> ReportKeyOf(12), err |-> ""]

\* --------------------------------------------------------------- C18
\* C18: the status query answers an id the registry does not hold with 404, an
\* id whose check is past its ExpiresAt and still in the registry with 410, a
\* Processing check with 202 and the poll handle of that id, a Completed check
\* with 200, the stored result and a link whose token verifies to the stored
\* report key, and a Failed check with a code that is none of these
C18_StatusByRegistryState ==
  [][\A id \in QueryIds :
       StatusQuery(id) =>
         LET r == ret'.response IN
         IF id \notin DOMAIN checks THEN r.code = 404
         ELSE IF After(now, Visible(id).ExpiresAt) THEN r.code = 410
         ELSE IF Visible(id).Status = StatusProcessing THEN r.code = 202 /\ r.PollURL = id
         ELSE IF Visible(id).Status = StatusCompleted
         THEN /\ r.code = 200
              /\ r.RiskScore = Visible(id).RiskScore /\ r.RiskLevel = Visible(id).RiskLevel
              /\ r.Categories = Visible(id).Categories /\ r.Sanctions = Visible(id).Sanctions
              /\ Verify(TokenSecret, r.token, now) = [key |-> Visible(id).ReportKey, err |-> ""]
         ELSE /\ Visible(id).Status = StatusFailed
              /\ r.code \notin {200, 202, 404, 410}]_vars

\* the status of a check past its ExpiresAt that no sweep has removed yet has
\* been asked for and answered with 410
C18_ExpiredUnsweptGone ==
  /\ ret.op = "GetCheckStatus" /\ ret.response.code = 410
  /\ ret.id \in DOMAIN checks
  /\ Visible(ret.id).Status = StatusFailed

\* --------------------------------------------------------------- C19
Fetches == ret'.op = "GetReport" /\ ReportFetch

\* the report a token's key names is in the storage and not past its ExpiresAt
ReportLive(key) ==
  /\ Lookup(objects, config.storage, key, now) # {}
  /\ \A o \in Lookup(objects, config.storage, key, now) : ~After(now, o.ExpiresAt)

\* C19: the report fetch answers with the report (200 with the bytes or 302 to a
\* presigned URL) only when the token verifies and the report of its key is in
\* the storage and not expired; with a token that verifies and no report it
\* answers 404; with a token that is expired, invalid or tampered, or a report
\* that is expired, it answers 410
C19_ServesOnlyLiveReports ==
  [][Fetches =>
       LET verified == Verify(TokenSecret, ret'.presented, now) IN
       IF verified.err # "" THEN ret'.code = 410
       ELSE IF Lookup(objects, config.storage, verified.key, now) = {} THEN ret'.code = 404
       ELSE IF ReportLive(verified.key) THEN ret'.code \in {200, 302}
       ELSE ret'.code = 410]_vars

\* a fetch with the signed token has been answered with a redirect to a report
\* that was past its ExpiresAt
C19_ExpiredReportRedirected ==
  /\ ret.op = "GetReport" /\ ret.code = 302 /\ ret.presented = ret.link.token
  /\ ret.at = now
  /\ \E o \in objects : o.Key = ret.link.key /\ After(now, o.ExpiresAt)

\* --------------------------------------------------------------- C20
Requested == Head(queue[QueueAMLRequests]).body

\* the risk worker handles a check.requested event with a risk provider that
\* answers and a sanctions provider that can fail
HandlesWithSanctionsAtRisk ==
  /\ ProcessAMLCheck
  /\ Requested.type = EventAMLCheckRequested
  /\ ~AMLProviderFails
  /\ config.chainalysisKey

\* e is check.completed for the handled check with the score, level and
\* categories of the risk provider and either the result of the sanctions
\* provider or, after its failure, no hit and no identifications
CompletedWithNoHitOnFailure(e) ==
  /\ e.type = EventAMLCheckCompleted
  /\ e.check = Requested.check
  /\ \E r \in ProviderResults(Requested.payload.Address) :
       /\ e.payload.RiskScore = r.RiskScore /\ e.payload.RiskLevel = r.RiskLevel
       /\ e.payload.Categories = r.Categories
  /\ \E o \in SanctionsOutcomes :
       e.payload.Sanctions = (IF o.err THEN NoHit ELSE o.result)

\* C20 as stated: every such handling publishes check.completed for the check,
\* with no hit when the sanctions provider failed, and no check.failed
C20_AlwaysCompleted ==
  [][HandlesWithSanctionsAtRisk =>
       /\ \E e \in published' \ published : CompletedWithNoHitOnFailure(e)
       /\ \A e \in published' \ published : e.type # EventAMLCheckFailed]_vars

\* C20 amended: such a handling publishes no check.failed; when the bus takes the
\* publish it publishes exactly one event, check.completed for the check, with no
\* hit when the sanctions provider failed, and returns nil; when the bus refuses
\* the publish nothing is published and the handler returns the publish error
C20_CompletedIfBusTakesIt ==
  [][HandlesWithSanctionsAtRisk =>
       /\ \A e \in published' \ published : e.type # EventAMLCheckFailed
       /\ IF Up("bus")
          THEN /\ Cardinality(published' \ published) = 1
               /\ \A e \in published' \ published : CompletedWithNoHitOnFailure(e)
               /\ \E c \in hs'[QueueAMLRequests] : c.pc = "settle" /\ c.err = ""
          ELSE /\ published' = published
               /\ \E c \in hs'[QueueAMLRequests] :
                    c.pc = "settle" /\ c.err = "failed to publish completed event"]_vars

\* with the Chainalysis key set, check.completed has been published with the
\* score of the risk provider, no hit and no identifications
C20_CompletedWithoutSanctions ==
  /\ config.chainalysisKey
  /\ \E e \in published :
       /\ e.type = EventAMLCheckCompleted
       /\ e.payload.RiskScore = 85
       /\ e.payload.Sanctions = NoHit
  /\ \A e \in published : e.type # EventAMLCheckFailed

\* --------------------------------------------------------------- C21
\* the risk worker handles a check.requested event with a risk provider that fails
HandlesWithRiskFailing ==
  /\ ProcessAMLCheck
  /\ Requested.type = EventAMLCheckRequested
  /\ AMLProviderFails

FailedFor(e) ==
  /\ e.type = EventAMLCheckFailed
  /\ e.check = Requested.check
  /\ e.payload.ErrorMessage = "AML check failed"

\* the handler that has just returned called the risk provider and nothing else
OnlyRiskProviderCalled ==
  \A c \in hs'[QueueAMLRequests] \ hs[QueueAMLRequests] : c.calls = {"aml"}

\* C21 as stated: every such handling publishes check.failed with the check id
\* and the error message, publishes no check.completed and does not call the
\* sanctions provider
C21_AlwaysFailedEvent ==
  [][HandlesWithRiskFailing =>
       /\ \E e \in published' \ published : FailedFor(e)
       /\ \A e \in published' \ published : e.type # EventAMLCheckCompleted
       /\ OnlyRiskProviderCalled]_vars

\* C21 amended: such a handling never calls the sanctions provider and never
\* publishes check.completed; when the bus takes the publish it publishes exactly
\* one event, check.failed with the check id and the error message, and returns
\* that error; when the bus refuses the publish nothing is published and the
\* handler returns the publish error
C21_FailedEventIfBusTakesIt ==
  [][HandlesWithRiskFailing =>
       /\ OnlyRiskProviderCalled
       /\ \A e \in published' \ published : e.type # EventAMLCheckCompleted
       /\ IF Up("bus")
          THEN /\ Cardinality(published' \ published) = 1
               /\ \A e \in published' \ published : FailedFor(e)
               /\ \E c \in hs'[QueueAMLRequests] :
                    c.pc = "settle" /\ c.err = "AML check failed"
          ELSE /\ published' = published
               /\ \E c \in hs'[QueueAMLRequests] :
                    c.pc = "settle" /\ c.err = "failed to publish failed event"]_vars

\* the risk provider has failed for a check and check.failed is published for
\* it, with no check.completed and no call of the sanctions provider
C21_FailedPublishedAndStopped ==
  /\ \E e \in published :
       e.type = EventAMLCheckFailed /\ e.payload.ErrorMessage = "AML check failed"
  /\ \A e \in published : e.type # EventAMLCheckCompleted
  /\ \E c \in hs[QueueAMLRequests] : c.calls = {"aml"} /\ c.err = "AML check failed"

\* --------------------------------------------------------------- C22
\* the consumption loop of q takes a delivery and starts its handler
TakesDelivery(q) ==
  /\ Len(queue'[q]) < Len(queue[q]) \/ hs'[q] \ hs[q] # {}
  /\ hs[q] = {}
  /\ IF q = QueueAMLRequests THEN ProcessAMLCheck ELSE LoadCheck

\* C22: from the moment the cancellation of a subscription has fired, its loop
\* starts the handler of no further delivery, and a handler that was in flight
\* at that moment stays in flight until its delivery is settled
C22_NoDeliveryAfterCancel ==
  [][\A q \in Queues :
       /\ consumer[q] # "running" => ~TakesDelivery(q)
       /\ \A c \in hs[q] : c \in hs'[q] \/ Settle(q) \/ Mark \/ Update]_vars

\* the subscription of the report queue is cancelled while a delivery waits in
\* its queue and no handler is in flight: select may take either case
C22_CancelledWithDeliveryReady ==
  /\ consumer[QueueReportJobs] = "cancelled"
  /\ hs[QueueReportJobs] = {}
  /\ queue[QueueReportJobs] # <<>>

\* --------------------------------------------------------------- C23
\* C23: a check enters the registry with ExpiresAt = creation time + check
\* TTL, and every step leaves the ExpiresAt of every registered check as it was
C23_ExpiresAtSetOnce ==
  [][/\ \A id \in DOMAIN checks' \ DOMAIN checks :
          /\ Visible(id)'.CreatedAt = now
          /\ Visible(id)'.ExpiresAt = now + CheckTTL
     /\ \A id \in DOMAIN checks \cap DOMAIN checks' :
          /\ Visible(id)'.ExpiresAt = Visible(id).ExpiresAt
          /\ Visible(id).ExpiresAt = Visible(id).CreatedAt + CheckTTL]_vars

\* a check completed at a later time than it was created
C23_CompletedLaterSameExpiry ==
  \E id \in DOMAIN checks :
    /\ Visible(id).Status = StatusCompleted
    /\ Visible(id).UpdatedAt > Visible(id).CreatedAt
    /\ Visible(id).ExpiresAt = Visible(id).CreatedAt + CheckTTL

\* --------------------------------------------------------------- C24
\* C24: in every registry state a check has a report key only when Completed
\* and an error message only when Failed; a Completed check has no error
\* message and a Failed check has no report key
C24_KeyAndErrorFollowStatus ==
  \A id \in DOMAIN checks :
    /\ Visible(id).ReportKey # NoKey => Visible(id).Status = StatusCompleted
    /\ Visible(id).ErrorMessage # "" => Visible(id).Status = StatusFailed

\* a check that was marked Failed and then Completed, with no handler in
\* flight: it is Completed and still carries the error message
C24_CompletedWithErrorMessage ==
  /\ hs[QueueReportJobs] = {}
  /\ \E id \in DOMAIN checks :
       /\ Visible(id).Status = StatusCompleted
       /\ Visible(id).ReportKey # NoKey
       /\ Visible(id).ErrorMessage # ""

\* --------------------------------------------------------------- C25
\* the deliveries of q settled by this step
SettledNow(q) == IF hs'[q] \subseteq hs[q] THEN hs[q] \ hs'[q] ELSE {}

FailedBelowCeiling(c) == c.pc = "settle" /\ c.err # "" /\ RetryCountOf(c.msg) < MaxRetries

\* exactly one copy of the message of c joins the queue bound to its routing
\* key, with the same body and the counter one higher, and c is acknowledged
RepublishedOnce(q, c) ==
  /\ \E q2 \in Queues :
       /\ Len(queue'[q2]) = Len(queue[q2]) + 1
       /\ SubSeq(queue'[q2], 1, Len(queue[q2])) = queue[q2]
       /\ queue'[q2][Len(queue'[q2])].body = c.msg.body
       /\ queue'[q2][Len(queue'[q2])].routing = c.msg.routing
       /\ RetryCountOf(queue'[q2][Len(queue'[q2])]) = RetryCountOf(c.msg) + 1
       /\ c.msg.routing \in RoutingKeys(q2)
       /\ \A q3 \in Queues \ {q2} : queue'[q3] = queue[q3]
  /\ Settlement(q, c, "republished") \in settled'

\* the delivery of c is rejected with requeue: the same message, same counter,
\* is back at the head of its queue
Requeued(q, c) ==
  /\ queue' = [queue EXCEPT ![q] = <<c.msg>> \o @]
  /\ Settlement(q, c, "requeued") \in settled'

CountersInRange(qs) ==
  \A q \in Queues : \A i \in 1..Len(qs[q]) : RetryCountOf(qs[q][i]) \in 0..MaxRetries

\* the handlings of event e from queue q that were settled so far
Handlings(q, e) == {st \in settled : st.queue = q /\ st.event = e}

\* C25 as stated: every handler failure with a counter below 3 is followed by
\* one republished copy with the counter one higher and the acknowledgement
C25_AlwaysRepublished ==
  [][\A q \in Queues : \A c \in SettledNow(q) :
       FailedBelowCeiling(c) => RepublishedOnce(q, c)]_vars

\* C25: a handler failure with a counter below 3 is followed by one republished
\* copy with the same body, the same routing key and the counter one higher,
\* and the acknowledgement, when the bus accepts the republish, and by a
\* requeue with the counter unchanged when it does not; the counters of the
\* queued messages stay in 0..3; an event none of whose deliveries was requeued
\* is handled at most 4 times from a queue
C25_RepublishedIfBusTakesIt ==
  [][/\ \A q \in Queues : \A c \in SettledNow(q) :
          FailedBelowCeiling(c) =>
            IF Up("bus") THEN RepublishedOnce(q, c) ELSE Requeued(q, c)
     /\ CountersInRange(queue')
     /\ \A q \in Queues : \A c \in SettledNow(q) :
          (\A h \in Handlings(q, c.msg.body.id)' : h.outcome # "requeued")
            => Cardinality(Handlings(q, c.msg.body.id)') <= MaxRetries + 1]_vars

\* an event was handled four times from the request queue, republished after
\* each of the first three failures with the counters 0, 1 and 2
C25_HandledFourTimes ==
  \E st \in settled :
    /\ Cardinality(Handlings(QueueAMLRequests, st.event)) = MaxRetries + 1
    /\ \A n \in 0..(MaxRetries - 1) :
         \E h \in Handlings(QueueAMLRequests, st.event) :
           h.retry = n /\ h.outcome = "republished"
    /\ \A h \in Handlings(QueueAMLRequests, st.event) : h.outcome # "requeued"

\* --------------------------------------------------------------- C26
FailedAtCeiling(c) == c.pc = "settle" /\ c.err # "" /\ RetryCountOf(c.msg) >= MaxRetries

\* C26: a delivery at the retry ceiling whose handler failed and whose
\* dead-letter publish failed is rejected without requeue: it joins no queue
\* and no dead-letter queue, and its event is neither queued nor handled again
C26_RejectedIsLost ==
  [][/\ \A q \in Queues : \A c \in SettledNow(q) :
          FailedAtCeiling(c) /\ ~Up("bus") =>
            /\ queue' = queue
            /\ dlq' = dlq
            /\ dlx' = dlx
            /\ Settlement(q, c, "dropped") \in settled'
     /\ \A st \in settled :
          st.outcome = "dropped" => ~Queued(st.event)' /\ ~InFlight(st.event)']_vars

\* a delivery with counter 3 was rejected: its event is in no queue, in no
\* dead-letter queue and in no handler
C26_DroppedAtCeiling ==
  \E st \in settled :
    /\ st.outcome = "dropped"
    /\ st.retry = MaxRetries
    /\ ~Queued(st.event)
    /\ ~InFlight(st.event)
    /\ DeadLettersOf(st.event) = {}

\* --------------------------------------------------------------- C27
RiskFailure == "AML check failed"

\* the check.failed events published so far for a check
FailedEventsIn(pub, id) == {e \in pub : e.type = EventAMLCheckFailed /\ e.check = id}
FailedEventsOf(id) == FailedEventsIn(published, id)

\* every handling of event e from the request queue so far failed on the risk
\* provider with its check.failed event published, and was republished or
\* dead-lettered
OnlyRiskFailures(e) ==
  \A h \in Handlings(QueueAMLRequests, e) :
    h.err = RiskFailure /\ h.outcome \in {"republished", "dead-lettered"}

DeadLettered(q, c) ==
  /\ Settlement(q, c, "dead-lettered") \in settled'
  /\ Len(dlq'[q]) = Len(dlq[q]) + 1
  /\ dlq'[q][Len(dlq'[q])].body = c.msg.body
  /\ dlq'[q][Len(dlq'[q])].originalQueue = q
  /\ queue' = queue

\* C27: a handling of check.requested whose risk provider fails and whose
\* check.failed event is published returns an error; that delivery is
\* republished while its counter is below 3 and dead-lettered at 3; an event
\* handled only this way is handled at most 4 times, with one check.failed
\* event for its check per handling
C27_RiskFailureRetriedToDeadLetter ==
  [][/\ HandlesWithRiskFailing /\ Up("bus") =>
          /\ Cardinality(FailedEventsIn(published', Requested.check)) =
               Cardinality(FailedEventsOf(Requested.check)) + 1
          /\ \A c \in hs'[QueueAMLRequests] \ hs[QueueAMLRequests] :
               c.pc = "settle" /\ c.err = RiskFailure
     /\ \A c \in SettledNow(QueueAMLRequests) :
          c.err = RiskFailure /\ Up("bus") =>
            /\ IF RetryCountOf(c.msg) < MaxRetries
               THEN RepublishedOnce(QueueAMLRequests, c)
               ELSE DeadLettered(QueueAMLRequests, c)
            /\ OnlyRiskFailures(c.msg.body.id)' =>
                 /\ Cardinality(Handlings(QueueAMLRequests, c.msg.body.id)')
                      = RetryCountOf(c.msg) + 1
                 /\ RetryCountOf(c.msg) <= MaxRetries
                 /\ Cardinality(FailedEventsOf(c.msg.body.check)')
                      = RetryCountOf(c.msg) + 1]_vars

\* the provider failed on all four handlings: four check.failed events for the
\* check, and check.requested is in the dead-letter queue and nowhere else
C27_FourFailuresThenDeadLetter ==
  \E st \in settled :
    /\ st.queue = QueueAMLRequests
    /\ st.type = EventAMLCheckRequested
    /\ OnlyRiskFailures(st.event)
    /\ Cardinality(Handlings(QueueAMLRequests, st.event)) = MaxRetries + 1
    /\ Cardinality(FailedEventsOf(st.check)) = MaxRetries + 1
    /\ \E i \in 1..Len(dlq[QueueAMLRequests]) : dlq[QueueAMLRequests][i].body.id = st.event
    /\ ~Queued(st.event)
    /\ ~InFlight(st.event)

\* --------------------------------------------------------------- C28
\* the event type whose handling writes a terminal status
MarkingEvent(status) ==
  IF status = StatusCompleted THEN EventAMLCheckCompleted ELSE EventAMLCheckFailed

\* the object at ref gets a terminal status it did not have
WritesTerminal(ref) ==
  /\ Terminal(heap'[ref].Status)
  /\ ref \in DOMAIN heap => heap[ref].Status # heap'[ref].Status

\* C28: a handling of check.requested leaves the registry and every record as
\* they were, and a step that gives a record a terminal status is a step of
\* the report worker's handling of check.completed (Completed) or check.failed
\* (Failed) for that record
C28_OnlyReportWorkerWritesStatus ==
  [][/\ ProcessAMLCheck => heap' = heap /\ checks' = checks
     /\ \A ref \in DOMAIN heap' :
          WritesTerminal(ref) =>
            /\ Mark \/ Update
            /\ \E c \in hs[QueueReportJobs] :
                 /\ c.pc = "mark"
                 /\ c.ref = ref
                 /\ c.msg.body.type = MarkingEvent(heap'[ref].Status)]_vars

\* the risk worker has handled check.requested with both providers called and
\* its delivery is acknowledged, and the record is still as created
C28_HandledRecordUntouched ==
  \E st \in settled :
    /\ st.queue = QueueAMLRequests
    /\ st.type = EventAMLCheckRequested
    /\ st.outcome = "ack"
    /\ st.check \in DOMAIN checks
    /\ Visible(st.check).Status = StatusProcessing
    /\ Visible(st.check).UpdatedAt = Visible(st.check).CreatedAt
    /\ now > Visible(st.check).CreatedAt

\* --------------------------------------------------------------- C29
\* the report worker takes a check.completed delivery for a registered check
LoadsCompleted ==
  /\ LoadCheck
  /\ Head(queue[QueueReportJobs]).body.type = EventAMLCheckCompleted
  /\ RepositoryGet(Head(queue[QueueReportJobs]).body.check) # NilRef

Stored(objs, key) == \E o \in objs : o.Key = key

ReadyEvents(pub) == {e \in pub : e.type = EventAMLReportReady}

\* C29: the handling of check.completed stores the report under <checkId>.pdf
\* before it marks the check, and a failed store leaves the record, the
\* storage and the published events as they were and fails the handler; a
\* record becomes Completed only in a handling that has stored its report; and
\* report.ready is published only in the step after which the registry shows
\* the check Completed with the key the event carries
C29_StoreThenUpdateThenReady ==
  [][/\ LoadsCompleted =>
          \A c \in hs'[QueueReportJobs] \ hs[QueueReportJobs] :
            IF Up("storage")
            THEN /\ c.pc = "mark"
                 /\ Stored(objects', ReportKeyOf(c.msg.body.check))
                 /\ heap' = heap
                 /\ published' = published
            ELSE /\ c.pc = "settle" /\ c.err = "failed to store report"
                 /\ heap' = heap /\ checks' = checks
                 /\ objects' = objects
                 /\ published' = published
     /\ \A ref \in DOMAIN heap' :
          WritesTerminal(ref) /\ heap'[ref].Status = StatusCompleted =>
            \E c \in hs[QueueReportJobs] :
              /\ c.pc = "mark" /\ c.ref = ref
              /\ c.msg.body.type = EventAMLCheckCompleted
     /\ \A c \in hs'[QueueReportJobs] :
          c.pc = "mark" /\ c.msg.body.type = EventAMLCheckCompleted =>
            \/ c \in hs[QueueReportJobs]
            \/ \E d \in hs[QueueReportJobs] : d.pc = "mark" /\ d.msg = c.msg
            \/ LoadsCompleted /\ Up("storage")
     /\ \A e \in ReadyEvents(published') \ ReadyEvents(published) :
          /\ Update
          /\ e.check \in DOMAIN checks'
          /\ Visible(e.check)'.Status = StatusCompleted
          /\ Visible(e.check)'.ReportKey = ReportKeyOf(e.check)
          /\ e.payload.ReportKey = ReportKeyOf(e.check)]_vars

\* report.ready is published for a check that is Completed with the key
\* <checkId>.pdf and whose report is in the storage
C29_ReadyAfterStoredAndCompleted ==
  \E e \in ReadyEvents(published) :
    /\ e.check \in DOMAIN checks
    /\ Visible(e.check).Status = StatusCompleted
    /\ Visible(e.check).ReportKey = e.payload.ReportKey
    /\ Stored(objects, ReportKeyOf(e.check))

\* --------------------------------------------------------------- C30
\* the report worker takes a check.completed or check.failed delivery whose
\* check id is not in the registry
LoadsAbsent ==
  /\ LoadCheck
  /\ Head(queue[QueueReportJobs]).body.type \in {EventAMLCheckCompleted, EventAMLCheckFailed}
  /\ RepositoryGet(Head(queue[QueueReportJobs]).body.check) = NilRef

\* C30: the handling of check.completed or check.failed for an id that is not
\* in the registry fails with "check not found" and leaves the registry, the
\* records, the storage and the published events as they were; its delivery
\* is then republished, requeued, dead-lettered or rejected, never acknowledged
\* as handled
C30_AbsentCheckNotFound ==
  [][/\ LoadsAbsent =>
          /\ \A c \in hs'[QueueReportJobs] \ hs[QueueReportJobs] :
               c.pc = "settle" /\ c.err = "check not found"
          /\ hs'[QueueReportJobs] # hs[QueueReportJobs]
          /\ checks' = checks
          /\ heap' = heap
          /\ objects' = objects
          /\ published' = published
     /\ \A c \in SettledNow(QueueReportJobs) :
          c.err = "check not found" =>
            /\ Settlement(QueueReportJobs, c, "ack") \notin settled' \ settled
            /\ IF RetryCountOf(c.msg) < MaxRetries
               THEN IF Up("bus") THEN RepublishedOnce(QueueReportJobs, c)
                    ELSE Requeued(QueueReportJobs, c)
               ELSE IF Up("bus") THEN DeadLettered(QueueReportJobs, c)
                    ELSE Settlement(QueueReportJobs, c, "dropped") \in settled']_vars

\* check.completed of a check the sweep has evicted was handled: not found,
\* republished, the id still absent and no report stored
C30_EvictedCheckNotFound ==
  \E st \in settled :
    /\ st.queue = QueueReportJobs
    /\ st.type = EventAMLCheckCompleted
    /\ st.err = "check not found"
    /\ st.outcome = "republished"
    /\ st.check \notin DOMAIN checks
    /\ ~Stored(objects, ReportKeyOf(st.check))
    /\ ReadyEvents(published) = {}

\* --------------------------------------------------------------- C31
\* the report worker finishes a check.completed handling whose registry update
\* succeeds while the bus takes no publish
UpdatesWithoutBus ==
  /\ Update
  /\ ~Up("bus")
  /\ \E c \in hs[QueueReportJobs] \ hs'[QueueReportJobs] :
       /\ c.msg.body.type = EventAMLCheckCompleted
       /\ RepositoryUpdate(c.ref).err = ""

\* C31: when the registry update of a check.completed handling has succeeded
\* and the publish of report.ready fails, the handler returns nil, the check is
\* Completed with its report key and no report.ready exists; a delivery whose
\* handler returned nil is acknowledged and joins no queue again
C31_ReadyFailureNotPropagated ==
  [][/\ UpdatesWithoutBus =>
          /\ published' = published
          /\ \A c \in hs'[QueueReportJobs] \ hs[QueueReportJobs] :
               /\ c.pc = "settle" /\ c.err = ""
               /\ c.msg.body.check \in DOMAIN checks'
               /\ Visible(c.msg.body.check)'.Status = StatusCompleted
               /\ Visible(c.msg.body.check)'.ReportKey = ReportKeyOf(c.msg.body.check)
     /\ \A c \in SettledNow(QueueReportJobs) :
          c.err = "" =>
            /\ Settlement(QueueReportJobs, c, "ack") \in settled'
            /\ queue' = queue /\ dlq' = dlq /\ dlx' = dlx
            /\ heap' = heap /\ checks' = checks]_vars

\* check.completed was acknowledged after its first handling, the check is
\* Completed with its key, and report.ready was never published
C31_CompletedWithoutReady ==
  \E st \in settled :
    /\ st.queue = QueueReportJobs
    /\ st.type = EventAMLCheckCompleted
    /\ st.outcome = "ack" /\ st.retry = 0
    /\ st.check \in DOMAIN checks
    /\ Visible(st.check).Status = StatusCompleted
    /\ Visible(st.check).ReportKey = ReportKeyOf(st.check)
    /\ ReadyEvents(published) = {}
    /\ ~Queued(st.event) /\ ~InFlight(st.event)

\* --------------------------------------------------------------- C32
\* a created check whose check.requested the bus never accepted
Unannounced(id) ==
  /\ id \in 1..requests
  /\ id \in DOMAIN heap
  /\ ~\E e \in published : e.check = id

\* intake creates the record while the bus takes no publish
IntakeWithoutBus ==
  /\ \E r \in Requests : CheckAddress(r) /\ IntakeTable[r].verdict = "ok"
  /\ ~Up("bus")

\* C32: when intake has created the record and the publish of check.requested
\* fails, intake returns the error and no id and starts no wait; the record is
\* Processing and unchanged as long as it is registered, only the sweep past
\* its ExpiresAt removes it, and no message and no handling exists for its id
C32_UnannouncedCheckOrphaned ==
  [][/\ IntakeWithoutBus =>
          /\ lastIntake' = [result |-> "failed to publish event", id |-> 0]
          /\ waiter' = waiter
          /\ published' = published /\ queue' = queue
          /\ (requests + 1) \in DOMAIN checks'
          /\ heap'[checks'[requests + 1]].Status = StatusProcessing
     /\ \A id \in Ids :
          Unannounced(id) =>
            /\ heap'[id] = heap[id]
            /\ heap[id].Status = StatusProcessing
            /\ id \in DOMAIN checks /\ id \notin DOMAIN checks' =>
                 CleanupExpired /\ After(now, heap[id].ExpiresAt)
            /\ id \notin DOMAIN checks => id \notin DOMAIN checks'
            /\ \A q \in Queues :
                 /\ \A i \in 1..Len(queue'[q]) : queue'[q][i].body.check # id
                 /\ \A c \in hs'[q] : c.msg.body.check # id
            /\ \A st \in settled' : st.check # id
            /\ waiter'[id].pc = "none"]_vars

\* the record of a failed intake was Processing until the sweep removed it
C32_OrphanSwept ==
  /\ lastIntake.result = "failed to publish event"
  /\ \E id \in Ids : Unannounced(id) /\ id \notin DOMAIN checks
                     /\ heap[id].Status = StatusProcessing

\* --------------------------------------------------------------- C33
Handled(q) ==
  IF q = QueueAMLRequests THEN {EventAMLCheckRequested}
  ELSE {EventAMLCheckCompleted, EventAMLCheckFailed}

\* the worker of q takes a delivery whose type tag it does not handle
TakesUnknown(q) ==
  /\ TakesDelivery(q)
  /\ Head(queue[q]).body.type \notin Handled(q)

\* C33: the handling of a delivery with a type tag the worker does not handle
\* changes no record, stores and publishes nothing and returns nil; the
\* delivery is acknowledged, joins no queue and no dead-letter queue, and the
\* subscription is running with no handler in flight afterwards
C33_UnknownTagSkipped ==
  [][\A q \in Queues :
       /\ TakesUnknown(q) =>
            /\ heap' = heap /\ checks' = checks
            /\ objects' = objects /\ published' = published
            /\ \A c \in hs'[q] \ hs[q] : c.pc = "settle" /\ c.err = ""
            /\ consumer'[q] = "running"
       /\ \A c \in SettledNow(q) :
            c.msg.body.type \notin Handled(q) =>
              /\ Settlement(q, c, "ack") \in settled'
              /\ queue' = queue /\ dlq' = dlq /\ dlx' = dlx
              /\ hs'[q] = {} /\ consumer'[q] = "running"]_vars

\* the report worker acknowledged a delivery tagged report.ready and is now
\* handling a later check.completed
C33_HandlesAfterUnknown ==
  /\ \E st \in settled :
       /\ st.queue = QueueReportJobs /\ st.event = 0
       /\ st.type = EventAMLReportReady /\ st.outcome = "ack"
  /\ \E c \in hs[QueueReportJobs] : c.msg.body.type = EventAMLCheckCompleted /\ c.pc = "mark"
  /\ ReadyEvents(published) = {}

\* --------------------------------------------------------------- C34
\* C34: a Put of the report worker finds no object stored under its key, and
\* no step changes a stored object: an object under a key that is still stored
\* after the step is the same object, with the same expiry
C34_ReportPutOnce ==
  [][/\ LoadsCompleted /\ Up("storage") =>
          ~Stored(objects, ReportKeyOf(Head(queue[QueueReportJobs]).body.check))
     /\ \A o \in objects : Stored(objects', o.Key) => o \in objects']_vars

\* a check.completed and its redelivery were both handled to the end, each
\* with its own Put under the same key
C34_ReportStoredAgain ==
  \E st \in settled : \E rd \in settled :
    /\ st.queue = QueueReportJobs /\ st.type = EventAMLCheckCompleted
    /\ st.outcome = "ack" /\ st.replay = 0
    /\ rd.queue = QueueReportJobs /\ rd.event = st.event
    /\ rd.outcome = "ack" /\ rd.replay = 1
    /\ Stored(objects, ReportKeyOf(st.check))

\* --------------------------------------------------------------- C35
\* C35: check.requested for an id is published by the intake step that has
\* created its record; check.completed and check.failed for an id are published
\* by the risk worker's handling of a check.requested for that id; report.ready
\* for an id is published by the report worker's handling of a check.completed
\* for that id
C35_PublishedInCausalOrder ==
  [][\A e \in published' \ published :
       /\ e.type = EventAMLCheckRequested =>
            /\ \E r \in Requests : CheckAddress(r)
            /\ e.check \in DOMAIN checks'
            /\ Visible(e.check)'.ID = e.check
       /\ e.type \in {EventAMLCheckCompleted, EventAMLCheckFailed} =>
            /\ ProcessAMLCheck
            /\ Requested.type = EventAMLCheckRequested
            /\ Requested.check = e.check
            /\ \E p \in published : p.type = EventAMLCheckRequested /\ p.check = e.check
       /\ e.type = EventAMLReportReady =>
            /\ Update
            /\ \E c \in hs[QueueReportJobs] \ hs'[QueueReportJobs] :
                 /\ c.msg.body.type = EventAMLCheckCompleted
                 /\ c.msg.body.check = e.check
            /\ \E p \in published : p.type = EventAMLCheckCompleted /\ p.check = e.check]_vars

\* one check has its check.requested, check.failed, check.completed and
\* report.ready published
C35_AllEventsOfOneCheck ==
  \E id \in Ids :
    \A t \in {EventAMLCheckRequested, EventAMLCheckFailed,
              EventAMLCheckCompleted, EventAMLReportReady} :
      \E e \in published : e.type = t /\ e.check = id

\* --------------------------------------------------------------- C36
\* a step of the bounded wait of a CheckAddress request or of a status query
ReadsStatus ==
  \/ \E id \in Ids : Poll(id) \/ Timeout(id) \/ Abandon(id)
  \/ \E id \in QueryIds : StatusQuery(id)

\* C36: the poll, the timeout and the abandonment of a bounded wait and the
\* status query leave the registry, its records, the queues, the handlers, the
\* dead-letter queues, the published events, the acknowledgements, the storage
\* and the subscriptions as they were
C36_WaitAndQueryReadOnly ==
  [][ReadsStatus =>
       UNCHANGED <<heap, checks, queue, hs, dlq, dlx, settled, published, objects,
                   consumer>>]_vars

\* a request timed out while its check.requested was being handled, and a
\* status query found the check expired and still registered
C36_TimedOutAndQueriedExpired ==
  \E id \in Ids :
    /\ waiter[id].pc = "done" /\ waiter[id].code = 202
    /\ id \in DOMAIN checks
    /\ Visible(id).Status = StatusProcessing
    /\ ret = [op |-> "GetCheckStatus", id |-> id, response |-> [code |-> 410]]
    /\ InFlightFor(QueueAMLRequests, id) # {}

\* --------------------------------------------------------------- C37
\* the check.completed of check id was dead-lettered from the report queue
\* after failed handlings
CompletedDeadLettered(id) ==
  \E st \in settled :
    /\ st.queue = QueueReportJobs /\ st.type = EventAMLCheckCompleted
    /\ st.check = id /\ st.outcome = "dead-lettered"
    /\ \A h \in Handlings(QueueReportJobs, st.event) : h.err # ""
    /\ \E i \in 1..Len(dlq[QueueReportJobs]) : dlq[QueueReportJobs][i].body.id = st.event

\* C37 as stated: a check whose check.completed was dead-lettered is
\* Processing and every status query answers "processing" for it as long as
\* it is registered
C37_ProcessingUntilEvicted ==
  \A id \in Ids :
    CompletedDeadLettered(id) /\ id \in DOMAIN checks /\ FailedEventsOf(id) = {} =>
      /\ Visible(id).Status = StatusProcessing
      /\ StatusResponse(id) = [code |-> 202, PollURL |-> id]

\* C37: a check whose check.completed was dead-lettered, and for which no
\* check.failed exists, is as long as it is registered Processing without
\* report key and error message; a status query answers "processing" for it
\* up to its ExpiresAt and "expired" from then until the sweep has evicted it
C37_ProcessingUntilExpired ==
  \A id \in Ids :
    CompletedDeadLettered(id) /\ id \in DOMAIN checks /\ FailedEventsOf(id) = {} =>
      /\ Visible(id).Status = StatusProcessing
      /\ Visible(id).ReportKey = NoKey
      /\ Visible(id).ErrorMessage = ""
      /\ StatusResponse(id) = IF now > Visible(id).ExpiresAt THEN [code |-> 410]
                              ELSE [code |-> 202, PollURL |-> id]

\* the store failed on all four handlings of check.completed: the message is
\* dead-lettered, and the check is registered, unexpired and Processing
C37_StoreFailedFourTimes ==
  \E st \in settled :
    /\ st.queue = QueueReportJobs /\ st.type = EventAMLCheckCompleted
    /\ Cardinality(Handlings(QueueReportJobs, st.event)) = MaxRetries + 1
    /\ \A h \in Handlings(QueueReportJobs, st.event) : h.err = "failed to store report"
    /\ CompletedDeadLettered(st.check)
    /\ st.check \in DOMAIN checks
    /\ Visible(st.check).Status = StatusProcessing
    /\ ~IsExpired(Visible(st.check))
    /\ objects = {}

\* --------------------------------------------------------------- C38
\* C38: the dead-letter queue of a queue holds only messages that were
\* dead-lettered from that queue
C38_DeadLetterInOwnQueueOnly ==
  \A q \in Queues : \A i \in 1..Len(dlq[q]) : dlq[q][i].originalQueue = q

\* a check.requested dead-lettered from the risk worker's queue is in the
\* dead-letter queue of the report worker's queue as well
C38_CopyInOtherDeadLetterQueue ==
  \E i \in 1..Len(dlq[QueueReportJobs]) :
    /\ dlq[QueueReportJobs][i].originalQueue = QueueAMLRequests
    /\ dlq[QueueReportJobs][i].body.type = EventAMLCheckRequested
    /\ \E j \in 1..Len(dlq[QueueAMLRequests]) :
         dlq[QueueAMLRequests][j] = dlq[QueueReportJobs][i]

\* --------------------------------------------------------------- C39
\* C39: when the handler of a delivery with a counter below 3 has failed and
\* the republish fails, the delivery is back at the head of its queue with
\* its body, routing key and counter unchanged, every other queue and every
\* dead-letter queue is as it was, and no copy with a higher counter exists
C39_RepublishFailureRequeues ==
  [][\A q \in Queues : \A c \in SettledNow(q) :
       FailedBelowCeiling(c) /\ ~Up("bus") =>
         /\ Len(queue'[q]) = Len(queue[q]) + 1
         /\ Head(queue'[q]) = c.msg
         /\ RetryCountOf(Head(queue'[q])) = RetryCountOf(c.msg)
         /\ Tail(queue'[q]) = queue[q]
         /\ \A q2 \in Queues \ {q} : queue'[q2] = queue[q2]
         /\ dlq' = dlq /\ dlx' = dlx
         /\ Settlement(q, c, "requeued") \in settled'
         /\ Settlement(q, c, "republished") \notin settled' \ settled]_vars

\* a requeued delivery is being handled again with the counter it had
C39_RequeuedHandledAgain ==
  \E st \in settled :
    /\ st.outcome = "requeued"
    /\ \E c \in hs[st.queue] :
         /\ c.msg.body.id = st.event
         /\ RetryCountOf(c.msg) = st.retry
    /\ DeadLettersOf(st.event) = {}

\* --------------------------------------------------------------- C40
\* C40: a request that has answered never answers again, and its answer is
\* the result (200), the failure (502) or "processing" (202); a poll whose
\* lookup fails answers nothing; and every waiting request whose deadline lies
\* within the time considered has answered at some point
C40_WaitAnswersOnce ==
  /\ [][\A id \in Ids :
          /\ waiter[id].pc = "done" => waiter'[id] = waiter[id]
          /\ waiter'[id].pc = "done" => waiter'[id].code \in {200, 502, 202}
          /\ Poll(id) /\ GetCheckStatus(id) # "ok" => waiter'[id] = waiter[id]]_vars
  /\ \A id \in Ids :
       (waiter[id].pc = "waiting" /\ waiter[id].deadline <= MaxTime)
         ~> (waiter[id].pc = "done")

\* a request whose check had been evicted before any poll could read it
\* terminal has answered "processing"
C40_AnsweredForEvictedCheck ==
  \E id \in Ids :
    /\ waiter[id].pc = "done" /\ waiter[id].code = 202
    /\ id \notin DOMAIN checks
    /\ GetCheckStatus(id) = "check not found"
    /\ heap[id].Status = StatusProcessing

====
